---- MODULE Spec2Model ----
(***************************************************************************)
(* A model of the eXtremeDB Rust wrapper (crate extremedb): the calls the  *)
(* wrapper types issue on the native handles they own, and the state the   *)
(* wrappers keep about them.  The native library is outside the crate; it  *)
(* appears here only as the calls issued on it, with every status code it  *)
(* can return chosen nondeterministically.                                 *)
(***************************************************************************)
EXTENDS Integers, Sequences, FiniteSets, TLC

\* ------------------------------------------------------------------ bounds
MaxBegin == 3
MaxRows == 2
MaxRecBufs == 2
MaxLiveRecs == 2
MaxLiveRefs == 2
MaxRefs == 3
MaxValues == 2
MaxAllocs == 2
MaxStartCalls == 3
MaxInvocations == 2
MaxParams == 2
MaxDevs == 2
MaxNameLen == 257
MaxWriters == 2
MaxInserts == 2
MaxQueries == 3
MaxTag == 24
MaxCode == 70
MaxDtorCode == 3
MaxObjs == 5
MaxPrec == 20
MaxDbNameLen == 3
MaxOpens == 2
MaxBytes == 6
MaxSeqLen == 3
MaxItems == 3
MaxConnects == 2
MaxSrvCalls == 5
MaxBackupNameLen == 3

\* ------------------------------------------------------- program constants
SQL_OK == 0
NO_MORE_ELEMENTS == 1
RUNTIME_ERROR == 10
INVALID_TYPE_CAST == 2
CT_UNICODE == 14
CT_REFERENCE == 17
CT_ARRAY == 18
CT_STRUCT == 19
CT_BLOB == 20
CT_DATA_SOURCE == 21
CT_LIST == 22
CT_SEQUENCE == 23
NULL == 0
MCO_S_OK == 0
MCO_E_NOMEM == 52
MCO_E_ILLEGAL_PARAM == 62
NamedNameLen == 64
FileNameLen == 256
MultiFileNameLen == 64
RaidNameLen == 64
MaxNumericPrec == 19
BackupMapFilenameLen == 256
NDigits == 20

StatusCodes == {SQL_OK, RUNTIME_ERROR}

VARIABLES
    \* sql/trans.rs
    trans,      \* Transaction objects: [st, h]
    tlog,       \* per native transaction handle: the calls issued on it
    nst,        \* per native transaction handle: the engine-side state
    nBegin,     \* number of Transaction::begin calls made so far
    nextH,      \* next native transaction handle the engine hands out
    lastOp,     \* the wrapper call that ran last and what it returned
    \* sql/data_source.rs
    rec_h,      \* Cursor.rec_h, the record handle the cursor holds
    curPos,     \* engine side: rows the native cursor has moved over
    nRows,      \* engine side: number of rows of the data source
    recStore,   \* engine side: the row each record buffer holds (0: none)
    lastAdv,    \* what the most recent Cursor::advance returned
    recs,       \* the live Record values borrowed from the cursor
    vrefs,      \* the live value references borrowed from Records
    \* sql/value.rs
    refs,       \* value Ref objects: [st, kind, of, allocator, ref_]
    vlog,       \* per native value: the allocators it was released through
    vowner,     \* per native value: the Ref that took ownership, its allocator
    nextV,      \* next native value the engine hands out
    \* runtime.rs
    RUNTIME_STARTED,  \* the static AtomicBool of Runtime::start
    rtpc,       \* per Runtime::start call: where the call is
    rtprev,     \* per Runtime::start call: what its fetch_or returned
    rtlog,      \* the runtime events so far, in order
    \* sql/stmt.rs
    invs,       \* the statement invocations so far: [kind, calls, result]
    nextA,      \* next arena (allocator) handle the engine hands out
    \* device.rs, database.rs
    devs,       \* Device values: [st, type_, ptr, size, inVec, opened]
    heap,       \* per std::alloc allocation: how often it was deallocated
    dbOpen,     \* a Database opened on the device Vec is alive
    devRes,     \* what the last Device constructor or Database::open returned
    made,       \* the last named-device constructor call and its result
    arg,        \* the name handed to the named-device constructors
    \* engine side: the rows of the tables
    ins,        \* per native transaction handle: rows inserted through it
    seen,       \* what the last read-only transaction observed, and after which call
    \* sql/stmt.rs: execute_query
    queries,    \* the execute_query calls so far: what the engine did, what was returned
    \* sql/value.rs: checked casts
    cast,       \* the last as_array / as_sequence / as_blob / try_from call and its result
    \* lib.rs, sql.rs: status codes to results
    conv,       \* the last result_from_code call: the API, the code, the Result
    \* destructors
    dtor,       \* the last destructor run: type, build, native codes, calls made, outcome
    \* the handle wrappers and what they borrow
    objs,       \* the wrapper values: [kind, parent, st, nat]
    lastRel,    \* the last native release: the value, and what was still open under it
    \* sql/value.rs: integers in and out of values
    iarg,       \* the integer handed to to_value: its type and bit pattern
    iret,       \* the last to_value / to_i64 round trip and what it returned
    \* sql/value.rs: Numeric
    narg,       \* the arguments handed to Numeric::new: scaled value and precision
    nret,       \* the last Numeric::new, int_part and fract_part calls and their results
    \* database.rs: Database::open
    dbarg,      \* the name handed to Database::open
    db,         \* native open and close calls issued, the live Database, and the last result of open
    \* device.rs: the memory of a conventional device
    mem,        \* the region allocated by the last Device::new_mem_conv: [res, bytes]
    \* sql/value.rs: SequenceIterator
    seqLen,     \* the number of elements of the sequence iterated
    iter,       \* the iterator: elements fetched, val_ref.ref_, outcome of the last advance
    got,        \* the last current_value call: iterator state it saw and what it returned
    \* extremedb_sys/tests/api_check/api.rs: Matcher
    apis,       \* the inner and the outer Api being built
    matched,    \* the results of match_apis on the two, either way round
    \* extremedb_sys/tests/api_check/api.rs: TypeMatcher
    tm,         \* a TypeMatcher's switches, the two types handed to match_types, and its answer
    \* sql/rsql/client.rs: RemoteEngine
    cln,        \* the client handle of the latest connect: build, native calls made on it and their codes, and where the RemoteEngine stands
    nConn,      \* the number of connect calls made
    \* sql/rsql/server.rs: Server
    srv,        \* the native calls made on the server handle, in order, and whether the Server value is alive
    \* database.rs: Params::backup_map_filename
    bkp         \* the backup_map_filename field of the Params, the name of the last successful call, and the result of the last call

txVars == <<trans, tlog, nst, nBegin, nextH, lastOp>>
curVars == <<rec_h, curPos, nRows, recStore, lastAdv, recs, vrefs>>
refVars == <<refs, vlog, vowner, nextV>>
rtVars == <<RUNTIME_STARTED, rtpc, rtprev, rtlog>>
stVars == <<invs, nextA>>
devVars == <<devs, heap, dbOpen, devRes>>
nameVars == <<made, arg>>
isoVars == <<ins, seen>>
qryVars == <<queries>>
castVars == <<cast>>
convVars == <<conv>>
dtorVars == <<dtor>>
nestVars == <<objs, lastRel>>
intVars == <<iarg, iret>>
numVars == <<narg, nret>>
dbVars == <<dbarg, db>>
memVars == <<mem>>
seqVars == <<seqLen, iter, got>>
apiVars == <<apis, matched>>
tmVars == <<tm>>
clnVars == <<cln, nConn>>
srvVars == <<srv>>
bkpVars == <<bkp>>

vars == <<txVars, curVars, refVars, rtVars, stVars, devVars, nameVars, isoVars, qryVars, castVars, convVars, dtorVars, nestVars, intVars, numVars, dbVars, memVars, seqVars, apiVars, tmVars, clnVars, srvVars, bkpVars>>

nonTx == <<curVars, refVars, rtVars, stVars, devVars, nameVars, isoVars, qryVars, castVars, convVars, dtorVars, nestVars, intVars, numVars, dbVars, memVars, seqVars, apiVars, tmVars, clnVars, srvVars, bkpVars>>
nonCur == <<txVars, refVars, rtVars, stVars, devVars, nameVars, isoVars, qryVars, castVars, convVars, dtorVars, nestVars, intVars, numVars, dbVars, memVars, seqVars, apiVars, tmVars, clnVars, srvVars, bkpVars>>
nonRef == <<txVars, curVars, rtVars, stVars, devVars, nameVars, isoVars, qryVars, castVars, convVars, dtorVars, nestVars, intVars, numVars, dbVars, memVars, seqVars, apiVars, tmVars, clnVars, srvVars, bkpVars>>
nonRt == <<txVars, curVars, refVars, stVars, devVars, nameVars, isoVars, qryVars, castVars, convVars, dtorVars, nestVars, intVars, numVars, dbVars, memVars, seqVars, apiVars, tmVars, clnVars, srvVars, bkpVars>>
nonSt == <<txVars, curVars, refVars, rtVars, devVars, nameVars, isoVars, qryVars, castVars, convVars, dtorVars, nestVars, intVars, numVars, dbVars, memVars, seqVars, apiVars, tmVars, clnVars, srvVars, bkpVars>>
nonDev == <<txVars, curVars, refVars, rtVars, stVars, nameVars, isoVars, qryVars, castVars, convVars, dtorVars, nestVars, intVars, numVars, dbVars, memVars, seqVars, apiVars, tmVars, clnVars, srvVars, bkpVars>>
nonName == <<txVars, curVars, refVars, rtVars, stVars, devVars, isoVars, qryVars, castVars, convVars, dtorVars, nestVars, intVars, numVars, dbVars, memVars, seqVars, apiVars, tmVars, clnVars, srvVars, bkpVars>>
nonIso == <<txVars, curVars, refVars, rtVars, stVars, devVars, nameVars, qryVars, castVars, convVars, dtorVars, nestVars, intVars, numVars, dbVars, memVars, seqVars, apiVars, tmVars, clnVars, srvVars, bkpVars>>
nonQry == <<txVars, curVars, refVars, rtVars, stVars, devVars, nameVars, isoVars, castVars, convVars, dtorVars, nestVars, intVars, numVars, dbVars, memVars, seqVars, apiVars, tmVars, clnVars, srvVars, bkpVars>>
nonCast == <<txVars, curVars, refVars, rtVars, stVars, devVars, nameVars, isoVars, qryVars, convVars, dtorVars, nestVars, intVars, numVars, dbVars, memVars, seqVars, apiVars, tmVars, clnVars, srvVars, bkpVars>>
nonConv == <<txVars, curVars, refVars, rtVars, stVars, devVars, nameVars, isoVars, qryVars, castVars, dtorVars, nestVars, intVars, numVars, dbVars, memVars, seqVars, apiVars, tmVars, clnVars, srvVars, bkpVars>>
nonDtor == <<txVars, curVars, refVars, rtVars, stVars, devVars, nameVars, isoVars, qryVars, castVars, convVars, nestVars, intVars, numVars, dbVars, memVars, seqVars, apiVars, tmVars, clnVars, srvVars, bkpVars>>
nonNest == <<txVars, curVars, refVars, rtVars, stVars, devVars, nameVars, isoVars, qryVars, castVars, convVars, dtorVars, intVars, numVars, dbVars, memVars, seqVars, apiVars, tmVars, clnVars, srvVars, bkpVars>>
nonInt == <<txVars, curVars, refVars, rtVars, stVars, devVars, nameVars, isoVars, qryVars, castVars, convVars, dtorVars, nestVars, numVars, dbVars, memVars, seqVars, apiVars, tmVars, clnVars, srvVars, bkpVars>>
nonNum == <<txVars, curVars, refVars, rtVars, stVars, devVars, nameVars, isoVars, qryVars, castVars, convVars, dtorVars, nestVars, intVars, dbVars, memVars, seqVars, apiVars, tmVars, clnVars, srvVars, bkpVars>>
nonDb == <<txVars, curVars, refVars, rtVars, stVars, devVars, nameVars, isoVars, qryVars, castVars, convVars, dtorVars, nestVars, intVars, numVars, memVars, seqVars, apiVars, tmVars, clnVars, srvVars, bkpVars>>
nonMem == <<txVars, curVars, refVars, rtVars, stVars, devVars, nameVars, isoVars, qryVars, castVars, convVars, dtorVars, nestVars, intVars, numVars, dbVars, seqVars, apiVars, tmVars, clnVars, srvVars, bkpVars>>
nonSeq == <<txVars, curVars, refVars, rtVars, stVars, devVars, nameVars, isoVars, qryVars, castVars, convVars, dtorVars, nestVars, intVars, numVars, dbVars, memVars, apiVars, tmVars, clnVars, srvVars, bkpVars>>
nonApi == <<txVars, curVars, refVars, rtVars, stVars, devVars, nameVars, isoVars, qryVars, castVars, convVars, dtorVars, nestVars, intVars, numVars, dbVars, memVars, seqVars, tmVars, clnVars, srvVars, bkpVars>>
nonTm == <<txVars, curVars, refVars, rtVars, stVars, devVars, nameVars, isoVars, qryVars, castVars, convVars, dtorVars, nestVars, intVars, numVars, dbVars, memVars, seqVars, apiVars, clnVars, srvVars, bkpVars>>
nonCln == <<txVars, curVars, refVars, rtVars, stVars, devVars, nameVars, isoVars, qryVars, castVars, convVars, dtorVars, nestVars, intVars, numVars, dbVars, memVars, seqVars, apiVars, tmVars, srvVars, bkpVars>>
nonSrv == <<txVars, curVars, refVars, rtVars, stVars, devVars, nameVars, isoVars, qryVars, castVars, convVars, dtorVars, nestVars, intVars, numVars, dbVars, memVars, seqVars, apiVars, tmVars, clnVars, bkpVars>>
nonBkp == <<txVars, curVars, refVars, rtVars, stVars, devVars, nameVars, isoVars, qryVars, castVars, convVars, dtorVars, nestVars, intVars, numVars, dbVars, memVars, seqVars, apiVars, tmVars, clnVars, srvVars>>

\* ====================================================== sql/trans.rs =====
TransIds == 1..MaxBegin
Handles == 1..MaxBegin

\* The engine side of one call on a transaction handle.  A call on a handle
\* that has been released, or on a transaction that is no longer active,
\* changes nothing.  A failed commit leaves the transaction active, or rolls
\* it back when the engine is configured for automatic rollback (auto).
Released(log) == \E i \in 1..Len(log) : log[i].op = "release"

NativeState(state, log, op, rc, auto) ==
    IF state # "Active" \/ Released(log) THEN state
    ELSE IF op = "commit" THEN
            (IF rc = SQL_OK THEN "Committed"
             ELSE IF auto THEN "RolledBack" ELSE "Active")
    ELSE IF op = "rollback" THEN
            (IF rc = SQL_OK THEN "RolledBack" ELSE "Active")
    ELSE state

\* One native call op(hd) issued by the object by, returning rc.
NativeCall(s, hd, op, rc, auto, by) ==
    IF hd \in Handles
    THEN [s EXCEPT !.nst[hd] = NativeState(s.nst[hd], s.tlog[hd], op, rc, auto),
                   !.tlog[hd] = Append(s.tlog[hd], [op |-> op, by |-> by, rc |-> rc])]
    ELSE s

\* A finalize that commits whatever it is asked to do.
FinalizeAlwaysCommits(s, t, commit, rc, rc2, auto) ==
    LET hd == s.trans[t].h
        s1 == NativeCall(s, hd, "commit", rc, auto, t)
        s2 == NativeCall(s1, hd, "release", rc2, auto, t)
    IN  [s2 EXCEPT !.trans[t].h = NULL,
                   !.res = IF rc # SQL_OK THEN rc ELSE rc2]

\* Transaction::finalize: commit or roll back, then release the handle,
\* which is replaced by null; the first failing code is the result.
Finalize(s, t, commit, rc, rc2, auto) ==
    LET hd == s.trans[t].h
        s1 == NativeCall(s, hd, IF commit THEN "commit" ELSE "rollback", rc, auto, t)
        s2 == NativeCall(s1, hd, "release", rc2, auto, t)
    IN  [s2 EXCEPT !.trans[t].h = NULL,
                   !.res = IF rc # SQL_OK THEN rc ELSE rc2]

\* A Drop that releases the handle without rolling back.
DropReleaseOnly(s, t, rc, rc2, auto) ==
    LET hd == s.trans[t].h
        s1 == IF hd # NULL THEN NativeCall(s, hd, "release", rc2, auto, t) ELSE s
    IN  [s1 EXCEPT !.trans[t] = [st |-> "gone", h |-> NULL]]

\* impl Drop for Transaction: finalize(false) unless the handle is null.
\* The result of finalize is only debug-asserted, so res is left alone.
DropTransaction(s, t, rc, rc2, auto) ==
    LET s1 == IF s.trans[t].h # NULL
              THEN [Finalize(s, t, FALSE, rc, rc2, auto) EXCEPT !.res = s.res]
              ELSE s
    IN  [s1 EXCEPT !.trans[t].st = "gone"]

TxState == [trans |-> trans, tlog |-> tlog, nst |-> nst, res |-> SQL_OK]

TxSet(s, op, t, hd) ==
    /\ trans' = s.trans
    /\ tlog' = s.tlog
    /\ nst' = s.nst
    /\ lastOp' = [op |-> op, t |-> t, h |-> hd, res |-> s.res]

\* Transaction::begin.  The Transaction value is built before the status
\* code is looked at (the argument of Result::and is evaluated eagerly), from
\* the out-parameter h.  When the native call fails h was never written:
\* reading it yields null or whatever the stack slot held, such as a handle
\* an earlier begin left there.  The value is then dropped by Result::and.
Begin ==
    /\ nBegin < MaxBegin
    /\ \E rc \in StatusCodes, g \in 0..(nextH - 1), rc1 \in StatusCodes,
          rc2 \in StatusCodes, auto \in BOOLEAN :
          LET t == nBegin + 1 IN
          IF rc = SQL_OK
          THEN /\ g = 0 /\ rc1 = SQL_OK /\ rc2 = SQL_OK /\ auto
               /\ TxSet([TxState EXCEPT !.trans[t] = [st |-> "live", h |-> nextH],
                                        !.nst[nextH] = "Active"],
                        "begin", t, nextH)
               /\ nextH' = nextH + 1
          ELSE /\ (g = NULL => rc1 = SQL_OK /\ rc2 = SQL_OK /\ auto)
               /\ TxSet(DropTransaction(
                            [TxState EXCEPT !.trans[t] = [st |-> "temp", h |-> g],
                                            !.res = rc],
                            t, rc1, rc2, auto),
                        "begin_failed", t, g)
               /\ nextH' = nextH
    /\ nBegin' = nBegin + 1
    /\ UNCHANGED nonTx

\* Transaction::commit(mut self): finalize(true); self is dropped on return.
Commit(t) ==
    /\ trans[t].st = "live"
    /\ \E rc \in StatusCodes, rc2 \in StatusCodes, auto \in BOOLEAN :
          /\ (rc = SQL_OK => auto)
          /\ TxSet(DropTransaction(Finalize(TxState, t, TRUE, rc, rc2, auto),
                                   t, rc, rc2, auto),
                   "commit", t, trans[t].h)
    /\ UNCHANGED <<nBegin, nextH, nonTx>>

\* Transaction::rollback(mut self): finalize(false); self is dropped on return.
Rollback(t) ==
    /\ trans[t].st = "live"
    /\ \E rc \in StatusCodes, rc2 \in StatusCodes :
          TxSet(DropTransaction(Finalize(TxState, t, FALSE, rc, rc2, TRUE),
                                t, rc, rc2, TRUE),
                "rollback", t, trans[t].h)
    /\ UNCHANGED <<nBegin, nextH, nonTx>>

\* A Transaction goes out of scope without commit() or rollback().
Drop(t) ==
    /\ trans[t].st = "live"
    /\ \E rc \in StatusCodes, rc2 \in StatusCodes :
          TxSet(DropTransaction(TxState, t, rc, rc2, TRUE), "drop", t, trans[t].h)
    /\ UNCHANGED <<nBegin, nextH, nonTx>>

\* ================================================ sql/data_source.rs =====
RecBufs == 1..MaxRecBufs
RecIds == 1..MaxLiveRecs

\* mcosql_cursor_move_next as the wrapper sees it: the status code, and the
\* value the call leaves in the out-parameter *record.  With SQL_OK the
\* engine stores the handle of the record for the next row; otherwise it
\* leaves the old handle in place or stores null.
MoveNextOutcomes(pos, n, old) ==
    {[rc |-> SQL_OK, written |-> b, pos |-> pos + 1] : b \in (IF pos < n THEN RecBufs ELSE {})}
    \cup {[rc |-> NO_MORE_ELEMENTS, written |-> w, pos |-> pos] :
              w \in (IF pos >= n THEN {old, NULL} ELSE {})}
    \cup {[rc |-> RUNTIME_ERROR, written |-> w, pos |-> pos] : w \in {old, NULL}}

\* An advance that keeps whatever the native call left in rec_h.
RecAfterAdvanceKeeps(rc, written) == written

\* Cursor::advance, the match on rc: rec_h survives only with SQL_OK.
RecAfterAdvance(rc, written) == IF rc = SQL_OK THEN written ELSE NULL

AdvanceResult(rc) ==
    IF rc = SQL_OK THEN "true" ELSE IF rc = NO_MORE_ELEMENTS THEN "false" ELSE "err"

\* An advance that could be called while Records are alive (&self).
AdvanceAllowedAlways(live) == TRUE

\* Cursor::advance takes &mut self and a Record holds a shared borrow of the
\* Cursor for as long as it lives, so advance can only be called when no
\* Record (and hence no value reference of a Record) is alive.
AdvanceAllowed(live) == live = {}

\* Cursor::current_record: None while rec_h is null.
CurrentRecord(h) == IF h = NULL THEN "None" ELSE "Some"

Advance ==
    /\ AdvanceAllowed(recs)
    /\ \E o \in MoveNextOutcomes(curPos, nRows, rec_h) :
          /\ rec_h' = RecAfterAdvance(o.rc, o.written)
          /\ curPos' = o.pos
          /\ recStore' = IF o.rc = SQL_OK
                         THEN [recStore EXCEPT ![o.written] = o.pos]
                         ELSE recStore
          /\ lastAdv' = AdvanceResult(o.rc)
    /\ UNCHANGED <<nRows, recs, vrefs, nonCur>>

\* current_record() returning Some(Record): the Record borrows the cursor
\* and carries the cursor's record handle.  row is the row the cursor was at
\* when the Record was made.
TakeRecord ==
    /\ CurrentRecord(rec_h) = "Some"
    /\ \E id \in RecIds :
          /\ \A r \in recs : r.id # id
          /\ recs' = recs \cup {[id |-> id, h |-> rec_h, row |-> curPos]}
    /\ UNCHANGED <<rec_h, curPos, nRows, recStore, lastAdv, vrefs, nonCur>>

\* Record::get_at returning Ok(Ref): the Ref borrows the Record.
GetAt ==
    /\ Cardinality(vrefs) < MaxLiveRefs
    /\ \E r \in recs, k \in 1..MaxLiveRefs :
          /\ \A v \in vrefs : v.id # k
          /\ vrefs' = vrefs \cup {[id |-> k, rec |-> r.id, h |-> r.h, row |-> r.row]}
    /\ UNCHANGED <<rec_h, curPos, nRows, recStore, lastAdv, recs, nonCur>>

DropRef ==
    /\ \E v \in vrefs : vrefs' = vrefs \ {v}
    /\ UNCHANGED <<rec_h, curPos, nRows, recStore, lastAdv, recs, nonCur>>

\* A Record can go out of scope only after the references borrowed from it.
DropRecord ==
    /\ \E r \in recs :
          /\ \A v \in vrefs : v.rec # r.id
          /\ recs' = recs \ {r}
    /\ UNCHANGED <<rec_h, curPos, nRows, recStore, lastAdv, vrefs, nonCur>>

\* Cursor::new: rec_h is null, the native cursor is before the first row.
InitCur ==
    /\ rec_h = NULL
    /\ curPos = 0
    /\ nRows = 0
    /\ recStore = [b \in RecBufs |-> 0]
    /\ lastAdv = "none"
    /\ recs = {}
    /\ vrefs = {}

\* The data source the cursor runs over has any number of rows.
InitCurRows ==
    /\ rec_h = NULL
    /\ curPos = 0
    /\ nRows \in 0..MaxRows
    /\ recStore = [b \in RecBufs |-> 0]
    /\ lastAdv = "none"
    /\ recs = {}
    /\ vrefs = {}

NextCur ==
    \/ Advance
    \/ TakeRecord
    \/ GetAt
    \/ DropRef
    \/ DropRecord

\* ----------------------------------------------------- claims on cursors
\* C4: current_record() returns a record exactly when the most recent
\* advance() returned true; it returns None before the first advance() and
\* after an advance() that returned false or an error.
CurrentRecordIffAdvanced ==
    (CurrentRecord(rec_h) = "Some") <=> (lastAdv = "true")

\* C4 witness: the cursor ran past the last row after having held a record.
AdvancedPastEnd ==
    /\ lastAdv = "false"
    /\ curPos = nRows
    /\ nRows > 0
    /\ CurrentRecord(rec_h) = "None"

\* C5: every live Record, and every live value reference of a Record, holds
\* the cursor's current record handle, and that record still holds the row
\* the cursor was at when its last advance() returned true.
RecordReflectsRow ==
    /\ \A r \in recs :
          /\ lastAdv = "true"
          /\ r.h = rec_h
          /\ r.row = curPos
          /\ recStore[r.h] = r.row
    /\ \A v \in vrefs :
          /\ \E r \in recs : r.id = v.rec
          /\ recStore[v.h] = v.row

\* C5 witness: the cursor is on its second row with a Record and a reference
\* taken from it alive.
RecordOnSecondRow ==
    /\ curPos = 2
    /\ \E r \in recs : \E v \in vrefs : v.rec = r.id /\ r.row = 2

\* ============================================= sql/value.rs: struct Ref ===
RefIds == 1..MaxRefs
Values == 1..MaxValues
Allocs == 1..MaxAllocs

NoRef == [st |-> "none", kind |-> "none", of |-> 0, allocator |-> NULL, ref_ |-> NULL]

\* Value::release: mcosql_rs_value_release(alloc.h, self.h).
Release(rs, alloc, v) ==
    IF v \in Values THEN [rs EXCEPT !.vlog[v] = Append(rs.vlog[v], alloc)] ELSE rs

\* Ref::release_value: release the value through the stored allocator when
\* neither is null, then null the value.
ReleaseValue(rs, r) ==
    LET cur == rs.refs[r]
        rs1 == IF cur.ref_ # NULL /\ cur.allocator # NULL
               THEN Release(rs, cur.allocator, cur.ref_)
               ELSE rs
    IN  [rs1 EXCEPT !.refs[r].ref_ = NULL]

\* Ref::replace_value: release the old value, store the new one.
ReplaceValue(rs, r, new_value) ==
    [ReleaseValue(rs, r) EXCEPT !.refs[r].ref_ = new_value]

\* Ref::defused_clone: same value, null allocator.
DefusedClone(cur, r) ==
    [st |-> "live", kind |-> "clone", of |-> r, allocator |-> NULL, ref_ |-> cur.ref_]

\* impl Drop for Ref: release_value.
DropOfRef(rs, r) == [ReleaseValue(rs, r) EXCEPT !.refs[r].st = "gone"]

RefState == [refs |-> refs, vlog |-> vlog]

RefSet(rs) ==
    /\ refs' = rs.refs
    /\ vlog' = rs.vlog

FreeRef(r) == refs[r].st = "none" /\ \A q \in RefIds : q < r => refs[q].st # "none"

\* What a read of the never-written out-parameter of a failed get_at can
\* yield: null, or the mcosql_rs_value_ref an earlier get_at left there.
StaleValueRefs ==
    {[allocator |-> NULL, ref_ |-> NULL]}
    \cup {[allocator |-> vowner[v].allocator, ref_ |-> v] : v \in 1..(nextV - 1)}

\* Record::get_at and Array::get_at.  The Ref is built from the
\* out-parameter before the status code is looked at (the argument of
\* Result::and is evaluated eagerly) and is dropped by Result::and when the
\* native call failed.
RefGetAt ==
    \E r \in RefIds, rc \in StatusCodes :
        /\ FreeRef(r)
        /\ IF rc = SQL_OK
           THEN /\ nextV <= MaxValues
                /\ \E a \in Allocs \cup {NULL} :
                      /\ RefSet([RefState EXCEPT !.refs[r] =
                             [st |-> "live", kind |-> "col", of |-> 0,
                              allocator |-> a, ref_ |-> nextV]])
                      /\ vowner' = [vowner EXCEPT ![nextV] = [ref |-> r, allocator |-> a]]
                /\ nextV' = nextV + 1
           ELSE /\ \E g \in StaleValueRefs :
                      RefSet(DropOfRef([RefState EXCEPT !.refs[r] =
                             [st |-> "temp", kind |-> "col", of |-> 0,
                              allocator |-> g.allocator, ref_ |-> g.ref_]], r))
                /\ UNCHANGED <<vowner, nextV>>
        /\ UNCHANGED nonRef

\* SequenceIterator::new: val_ref holds the sequence's allocator and no value.
SeqIterNew ==
    \E r \in RefIds, a \in Allocs :
        /\ FreeRef(r)
        /\ RefSet([RefState EXCEPT !.refs[r] =
               [st |-> "live", kind |-> "iter", of |-> 0, allocator |-> a, ref_ |-> NULL]])
        /\ UNCHANGED <<vowner, nextV, nonRef>>

\* SequenceIterator::advance: replace_value(seq.next()?).  A failing next
\* returns before replace_value; a successful one yields the next element or
\* null at the end of the sequence.  advance takes &mut self, so no clone
\* borrowed from the iterator is alive.
SeqAdvance ==
    \E r \in RefIds, rc \in StatusCodes, end \in BOOLEAN :
        /\ refs[r].st = "live" /\ refs[r].kind = "iter"
        /\ \A q \in RefIds : ~(refs[q].st = "live" /\ refs[q].of = r)
        /\ IF rc # SQL_OK
           THEN ~end /\ UNCHANGED <<refs, vlog, vowner, nextV>>
           ELSE IF end
           THEN /\ RefSet(ReplaceValue(RefState, r, NULL))
                /\ UNCHANGED <<vowner, nextV>>
           ELSE /\ nextV <= MaxValues
                /\ RefSet(ReplaceValue(RefState, r, nextV))
                /\ vowner' = [vowner EXCEPT ![nextV] =
                                 [ref |-> r, allocator |-> refs[r].allocator]]
                /\ nextV' = nextV + 1
        /\ UNCHANGED nonRef

\* SequenceIterator::current_value returning Some: a defused clone.
SeqCurrentValue ==
    \E r \in RefIds, c \in RefIds :
        /\ refs[r].st = "live" /\ refs[r].kind = "iter" /\ refs[r].ref_ # NULL
        /\ FreeRef(c)
        /\ RefSet([RefState EXCEPT !.refs[c] = DefusedClone(refs[r], r)])
        /\ UNCHANGED <<vowner, nextV, nonRef>>

\* A Ref goes out of scope; an iterator only after the clones borrowed from it.
RefDrop ==
    \E r \in RefIds :
        /\ refs[r].st = "live"
        /\ \A q \in RefIds : ~(refs[q].st = "live" /\ refs[q].of = r)
        /\ RefSet(DropOfRef(RefState, r))
        /\ UNCHANGED <<vowner, nextV, nonRef>>

InitRef ==
    /\ refs = [r \in RefIds |-> NoRef]
    /\ vlog = [v \in Values |-> <<>>]
    /\ vowner = [v \in Values |-> [ref |-> 0, allocator |-> NULL]]
    /\ nextV = 1

NextRef ==
    \/ RefGetAt
    \/ SeqIterNew
    \/ SeqAdvance
    \/ SeqCurrentValue
    \/ RefDrop

\* ------------------------------------------------ claims on value Refs
\* C6: a value a Ref owns (non-null allocator) is released exactly once,
\* through that Ref's allocator, when the Ref is dropped or its value is
\* replaced: never twice, never through another allocator, and not left
\* unreleased once the Ref has let go of it.
ValueReleasedOnce ==
    \A v \in 1..(nextV - 1) :
        LET o == vowner[v] IN
        o.allocator # NULL =>
            /\ Len(vlog[v]) <= 1
            /\ \A i \in 1..Len(vlog[v]) : vlog[v][i] = o.allocator
            /\ Len(vlog[v]) = (IF refs[o.ref].st = "live" /\ refs[o.ref].ref_ = v
                               THEN 0 ELSE 1)

\* ============================================================ runtime.rs ===
StartCalls == 1..MaxStartCalls

\* A Drop that clears the "runtime started" flag.
FlagAfterDropCleared(flag) == FALSE

\* impl Drop for Runtime: mco_runtime_stop; the flag is not reset.
FlagAfterDrop(flag) == flag

\* A fetch_or that stores nothing new.
FetchOrFalse(flag) == flag \/ FALSE

\* AtomicBool::fetch_or(true, SeqCst): the value stored.
FetchOrTrue(flag) == flag \/ TRUE

\* Runtime::start, first step: RUNTIME_STARTED.fetch_or(true, SeqCst), one
\* atomic read-modify-write.
StartFetchOr(c) ==
    /\ rtpc[c] = "idle"
    /\ rtprev' = [rtprev EXCEPT ![c] = RUNTIME_STARTED]
    /\ RUNTIME_STARTED' = FetchOrTrue(RUNTIME_STARTED)
    /\ rtpc' = [rtpc EXCEPT ![c] = "fetched"]
    /\ rtlog' = Append(rtlog, <<"fetch_or", c>>)
    /\ UNCHANGED nonRt

\* Runtime::start, the rest: if the flag was clear, mco_runtime_start, and a
\* panic unless it returns MCO_S_OK; if the flag was set, a panic.
StartRest(c) ==
    /\ rtpc[c] = "fetched"
    /\ IF ~rtprev[c]
       THEN \E rc \in {MCO_S_OK, MCO_E_NOMEM} :
               /\ rtpc' = [rtpc EXCEPT ![c] = IF rc = MCO_S_OK THEN "running" ELSE "panicked"]
               /\ rtlog' = Append(rtlog, <<"mco_runtime_start", c, rc>>)
       ELSE /\ rtpc' = [rtpc EXCEPT ![c] = "panicked"]
            /\ rtlog' = Append(rtlog, <<"panic", c>>)
    /\ UNCHANGED <<RUNTIME_STARTED, rtprev, nonRt>>

\* The Runtime value a start returned is dropped.
RuntimeDrop(c) ==
    /\ rtpc[c] = "running"
    /\ rtpc' = [rtpc EXCEPT ![c] = "dropped"]
    /\ RUNTIME_STARTED' = FlagAfterDrop(RUNTIME_STARTED)
    /\ rtlog' = Append(rtlog, <<"mco_runtime_stop", c>>)
    /\ UNCHANGED <<rtprev, nonRt>>

InitRt ==
    /\ RUNTIME_STARTED = FALSE
    /\ rtpc = [c \in StartCalls |-> "idle"]
    /\ rtprev = [c \in StartCalls |-> FALSE]
    /\ rtlog = <<>>

NextRt ==
    \/ \E c \in StartCalls : StartFetchOr(c)
    \/ \E c \in StartCalls : StartRest(c)
    \/ \E c \in StartCalls : RuntimeDrop(c)

\* --------------------------------------------------- claims on the runtime
RtEvents(kind) == {i \in 1..Len(rtlog) : rtlog[i][1] = kind}

\* C7: the native runtime is started at most once and at most one
\* Runtime::start ever returns a Runtime; every start call other than the
\* first to reach the flag panics without calling mco_runtime_start, also
\* when the first Runtime has been dropped by then.
StartAtMostOnce ==
    /\ Cardinality(RtEvents("mco_runtime_start")) <= 1
    /\ Cardinality({c \in StartCalls : rtpc[c] \in {"running", "dropped"}}) <= 1
    /\ \A i \in RtEvents("fetch_or") :
          (\E j \in RtEvents("fetch_or") : j < i) =>
              /\ rtpc[rtlog[i][2]] \in {"fetched", "panicked"}
              /\ \A k \in RtEvents("mco_runtime_start") : rtlog[k][2] # rtlog[i][2]

\* C7 witness: a start made after the first Runtime was dropped has panicked.
StartAfterDropPanicked ==
    \E i \in RtEvents("mco_runtime_stop") :
        \E j \in RtEvents("fetch_or") :
            /\ i < j
            /\ rtpc[rtlog[j][2]] = "panicked"

\* ========================================== sql/stmt.rs, sql/allocator.rs ===
Call(op, h, rc) == [op |-> op, h |-> h, rc |-> rc]

\* create_values: one to_value(alloc) per parameter, in order, stopping at
\* the first that fails (failAt, 0 for none).
CreateValuesCalls(a, nvals, failAt) ==
    [i \in 1..(IF failAt = 0 THEN nvals ELSE failAt) |->
        Call("to_value", a, IF i = failAt THEN RUNTIME_ERROR ELSE SQL_OK)]

\* impl Drop for Owned: mcosql_rs_allocator_destroy(self.h), no null check.
OwnedDrop(h) == <<Call("allocator_destroy", h, SQL_OK)>>

\* Owned::new: mcosql_rs_allocator_create; the Owned value is built from the
\* out-parameter before the status code is looked at and, when the call
\* failed, dropped at once with whatever the out-parameter held (g).
OwnedNew(rc, a, g) ==
    IF rc = SQL_OK
    THEN <<Call("allocator_create", a, rc)>>
    ELSE <<Call("allocator_create", NULL, rc)>> \o OwnedDrop(g)

\* A statement execution that returns early on a failed parameter
\* conversion without destroying the arena.
ExecuteLeakingOnError(kind, rcAlloc, a, g, nvals, failAt, rcExec) ==
    IF rcAlloc # SQL_OK THEN OwnedNew(rcAlloc, a, g)
    ELSE IF failAt # 0
    THEN OwnedNew(rcAlloc, a, g) \o CreateValuesCalls(a, nvals, failAt)
    ELSE OwnedNew(rcAlloc, a, g) \o CreateValuesCalls(a, nvals, failAt)
         \o <<Call(kind, a, rcExec)>> \o OwnedDrop(a)

\* Statement::execute_statement / execute_query: the native calls made, in
\* order.  alloc is the first local, so it is dropped last on every return,
\* early returns through ? included.
Execute(kind, rcAlloc, a, g, nvals, failAt, rcExec) ==
    IF rcAlloc # SQL_OK THEN OwnedNew(rcAlloc, a, g)
    ELSE IF failAt # 0
    THEN OwnedNew(rcAlloc, a, g) \o CreateValuesCalls(a, nvals, failAt) \o OwnedDrop(a)
    ELSE OwnedNew(rcAlloc, a, g) \o CreateValuesCalls(a, nvals, failAt)
         \o <<Call(kind, a, rcExec)>> \o OwnedDrop(a)

ExecuteResult(rcAlloc, failAt, rcExec) ==
    IF rcAlloc # SQL_OK THEN rcAlloc
    ELSE IF failAt # 0 THEN RUNTIME_ERROR
    ELSE rcExec

ExecuteCall ==
    /\ Len(invs) < MaxInvocations
    /\ \E kind \in {"statement_execute", "query_execute"},
          rcAlloc \in StatusCodes, g \in 0..(nextA - 1),
          nvals \in 0..MaxParams, failAt \in 0..MaxParams, rcExec \in StatusCodes :
          /\ failAt <= nvals
          /\ (rcAlloc = SQL_OK => g = 0)
          /\ (rcAlloc # SQL_OK \/ failAt # 0) => rcExec = SQL_OK
          /\ (rcAlloc # SQL_OK) => (nvals = 0 /\ failAt = 0)
          /\ invs' = Append(invs,
                 [kind |-> kind,
                  calls |-> Execute(kind, rcAlloc, nextA, g, nvals, failAt, rcExec),
                  result |-> ExecuteResult(rcAlloc, failAt, rcExec)])
          /\ nextA' = IF rcAlloc = SQL_OK THEN nextA + 1 ELSE nextA
    /\ UNCHANGED nonSt

InitSt ==
    /\ invs = <<>>
    /\ nextA = 1

NextSt == ExecuteCall

\* ------------------------------------------------ claims on statements
OpsAt(calls, op) == {k \in 1..Len(calls) : calls[k].op = op}

\* C8: an invocation whose arena was created made the creation its first
\* call, got an arena no earlier invocation had, converted every parameter
\* in that arena, and destroyed that arena exactly once, as its last call,
\* whether it returned Ok or an error.
ArenaPerInvocation ==
    \A i \in 1..Len(invs) :
        LET c == invs[i].calls
            a == c[1].h
        IN  /\ c[1].op = "allocator_create"
            /\ c[1].rc = SQL_OK =>
                  /\ a # NULL
                  /\ \A j \in 1..(i - 1) : invs[j].calls[1].h # a
                  /\ \A k \in OpsAt(c, "to_value") : c[k].h = a
                  /\ \A k \in OpsAt(c, invs[i].kind) : c[k].h = a
                  /\ OpsAt(c, "allocator_destroy") = {Len(c)}
                  /\ c[Len(c)].h = a

\* C8 witness: a call that failed converting its second parameter has
\* returned, its arena destroyed.
ConversionFailureDestroyed ==
    \E i \in 1..Len(invs) :
        LET c == invs[i].calls IN
        /\ c[1].rc = SQL_OK
        /\ invs[i].result # SQL_OK
        /\ Cardinality(OpsAt(c, "to_value")) = 2
        /\ OpsAt(c, invs[i].kind) = {}
        /\ c[Len(c)] = Call("allocator_destroy", c[1].h, SQL_OK)

\* ================================================ device.rs, database.rs ===
DevIds == 1..MaxDevs
Ptrs == 1..MaxDevs
NoDev == [st |-> "none", type_ |-> "none", ptr |-> NULL, size |-> 0,
          inVec |-> FALSE, opened |-> "never"]

FreeDev(d) == devs[d].st = "none" /\ \A q \in DevIds : q < d => devs[q].st # "none"

\* A Drop that never deallocates.
DropDeallocatesNever(type_) == FALSE

\* impl Drop for Device: dealloc only for MCO_MEMORY_CONV devices.
DropDeallocates(type_) == type_ = "MCO_MEMORY_CONV"

\* Device::new_mem_conv: alloc::alloc(s bytes); MCO_E_NOMEM and no Device
\* when it returns null, else a MCO_MEMORY_CONV device holding the pointer.
NewMemConv ==
    \E d \in DevIds, s \in {0, 1, MaxDevs}, ok \in BOOLEAN :
        /\ FreeDev(d)
        /\ ~dbOpen
        /\ IF ok
           THEN /\ devs' = [devs EXCEPT ![d] =
                       [st |-> "live", type_ |-> "MCO_MEMORY_CONV", ptr |-> d,
                        size |-> s, inVec |-> FALSE, opened |-> "never"]]
                /\ devRes' = MCO_S_OK
           ELSE /\ devs' = devs
                /\ devRes' = MCO_E_NOMEM
        /\ UNCHANGED <<heap, dbOpen, nonDev>>

\* The other constructors allocate nothing (new_mem_named, new_file, ...).
NewOtherDevice ==
    \E d \in DevIds, ty \in {"MCO_MEMORY_NAMED", "MCO_MEMORY_FILE"} :
        /\ FreeDev(d)
        /\ ~dbOpen
        /\ devs' = [devs EXCEPT ![d] =
               [st |-> "live", type_ |-> ty, ptr |-> NULL,
                size |-> 0, inVec |-> FALSE, opened |-> "never"]]
        /\ devRes' = MCO_S_OK
        /\ UNCHANGED <<heap, dbOpen, nonDev>>

\* The device is moved into the Vec<Device> handed to Database::open.
VecPush ==
    \E d \in DevIds :
        /\ devs[d].st = "live" /\ ~devs[d].inVec
        /\ ~dbOpen
        /\ devs' = [devs EXCEPT ![d].inVec = TRUE]
        /\ UNCHANGED <<heap, dbOpen, devRes, nonDev>>

\* Database::open(runtime, name, dict, devs, params): mco_db_open_dev on the
\* devices of the Vec; a Database, which borrows the Vec mutably for as long
\* as it lives, only when the call returns MCO_S_OK.
DatabaseOpen ==
    \E rc \in {MCO_S_OK, MCO_E_ILLEGAL_PARAM} :
        /\ ~dbOpen
        /\ dbOpen' = (rc = MCO_S_OK)
        /\ devRes' = rc
        /\ devs' = [d \in DevIds |->
               IF devs[d].st = "live" /\ devs[d].inVec
               THEN [devs[d] EXCEPT !.opened = IF rc = MCO_S_OK THEN "ok" ELSE "failed"]
               ELSE devs[d]]
        /\ UNCHANGED <<heap, nonDev>>

\* impl Drop for Database: mco_db_close.
DatabaseDrop ==
    /\ dbOpen
    /\ dbOpen' = FALSE
    /\ UNCHANGED <<devs, heap, devRes, nonDev>>

\* A Device is dropped (on its own, or with its Vec).  The Vec cannot be
\* touched while a Database borrows it.
DeviceDrop ==
    \E d \in DevIds :
        /\ devs[d].st = "live"
        /\ ~(devs[d].inVec /\ dbOpen)
        /\ devs' = [devs EXCEPT ![d].st = "gone", ![d].inVec = FALSE]
        /\ heap' = IF DropDeallocates(devs[d].type_)
                   THEN [heap EXCEPT ![devs[d].ptr] = @ + 1]
                   ELSE heap
        /\ UNCHANGED <<dbOpen, devRes, nonDev>>

InitDev ==
    /\ devs = [d \in DevIds |-> NoDev]
    /\ heap = [p \in Ptrs |-> 0]
    /\ dbOpen = FALSE
    /\ devRes = MCO_S_OK

NextDev ==
    \/ NewMemConv
    \/ NewOtherDevice
    \/ VecPush
    \/ DatabaseOpen
    \/ DatabaseDrop
    \/ DeviceDrop

\* ---- named devices
\* A name: n bytes 'a', with a NUL at position nulAt (0: none).
Name(n, nulAt) == [i \in 1..n |-> IF i = nulAt THEN 0 ELSE 97]
Names == {Name(n, 0) : n \in 0..MaxNameLen} \cup {Name(n, 2) : n \in 3..MaxNameLen}

NameFieldLen(fn) ==
    IF fn = "new_mem_named" THEN NamedNameLen
    ELSE IF fn = "new_file" THEN FileNameLen
    ELSE IF fn = "new_multifile" THEN MultiFileNameLen
    ELSE RaidNameLen

\* A length check that lets through a name as long as the field.
NameTooLongOffByOne(name, fieldLen) == Len(name) > fieldLen

\* if name.len() >= named.name.len() { return Err(MCO_E_ILLEGAL_PARAM) }
NameTooLong(name, fieldLen) == Len(name) >= fieldLen

\* mem::zeroed::<...>() followed by copy_nonoverlapping of name.len() bytes.
CopyName(name, fieldLen) ==
    [i \in 1..fieldLen |-> IF i <= Len(name) THEN name[i] ELSE 0]

NewNamedDevice(fn, name) ==
    IF NameTooLong(name, NameFieldLen(fn))
    THEN [fn |-> fn, name |-> name, res |-> MCO_E_ILLEGAL_PARAM, field |-> <<>>]
    ELSE [fn |-> fn, name |-> name, res |-> MCO_S_OK,
          field |-> CopyName(name, NameFieldLen(fn))]

NewMemNamed ==
    /\ made' = NewNamedDevice("new_mem_named", arg)
    /\ UNCHANGED <<arg, nonName>>

NewFile ==
    /\ made' = NewNamedDevice("new_file", arg)
    /\ UNCHANGED <<arg, nonName>>

NewMultifile ==
    /\ made' = NewNamedDevice("new_multifile", arg)
    /\ UNCHANGED <<arg, nonName>>

NewRaid ==
    /\ made' = NewNamedDevice("new_raid", arg)
    /\ UNCHANGED <<arg, nonName>>

NoneMade == [fn |-> "none", name |-> <<>>, res |-> MCO_S_OK, field |-> <<>>]

InitName == made = NoneMade /\ arg = <<>>

InitNames == made = NoneMade /\ arg \in Names

NextName ==
    \/ NewMemNamed
    \/ NewFile
    \/ NewMultifile
    \/ NewRaid

\* ----------------------------------------------------- claims on devices
\* C9: the memory of a conventional memory device has been deallocated
\* exactly once when the Device is gone and not at all while the Device is
\* alive, whether Database::open on it succeeded, failed or was never
\* called; while a Database is open on the device it is alive, its memory
\* not deallocated.
ConvMemoryFreedOnce ==
    \A d \in DevIds :
        devs[d].type_ = "MCO_MEMORY_CONV" =>
            /\ heap[devs[d].ptr] = (IF devs[d].st = "gone" THEN 1 ELSE 0)
            /\ (dbOpen /\ devs[d].inVec) =>
                  (devs[d].st = "live" /\ heap[devs[d].ptr] = 0)

\* C9 witness: a device whose Database::open failed was dropped, its memory
\* deallocated once, while another was dropped after a successful open.
DroppedAfterFailedOpen ==
    /\ \E d \in DevIds :
          /\ devs[d].type_ = "MCO_MEMORY_CONV"
          /\ devs[d].st = "gone"
          /\ devs[d].opened = "failed"
          /\ heap[devs[d].ptr] = 1
    /\ \E d \in DevIds :
          /\ devs[d].type_ = "MCO_MEMORY_CONV"
          /\ devs[d].st = "gone"
          /\ devs[d].opened = "ok"

\* C10: a named-device constructor fails with MCO_E_ILLEGAL_PARAM, making
\* no device, exactly when the name and its terminating NUL do not fit the
\* name field; when it succeeds the field holds every byte of the name,
\* followed by a NUL.
NameFitsOrRejected ==
    made.fn # "none" =>
        LET n == Len(made.name)
            fieldLen == NameFieldLen(made.fn)
        IN  IF n + 1 > fieldLen
            THEN made.res = MCO_E_ILLEGAL_PARAM /\ made.field = <<>>
            ELSE /\ made.res = MCO_S_OK
                 /\ Len(made.field) = fieldLen
                 /\ \A i \in 1..n : made.field[i] = made.name[i]
                 /\ made.field[n + 1] = 0

\* C10 witness: the longest name that fits a file device was stored.
LongestNameStored ==
    /\ made.fn = "new_file"
    /\ Len(made.name) = FileNameLen - 1
    /\ made.res = MCO_S_OK
    /\ made.field[FileNameLen] = 0
    /\ made.field[FileNameLen - 1] = 97

\* ------------------------------------------------------- transactions
InitTx ==
    /\ trans = [t \in TransIds |-> [st |-> "none", h |-> NULL]]
    /\ tlog = [hd \in Handles |-> <<>>]
    /\ nst = [hd \in Handles |-> "none"]
    /\ nBegin = 0
    /\ nextH = 1
    /\ lastOp = [op |-> "none", t |-> 0, h |-> NULL, res |-> SQL_OK]

NextTx ==
    \/ Begin
    \/ \E t \in TransIds : Commit(t)
    \/ \E t \in TransIds : Rollback(t)
    \/ \E t \in TransIds : Drop(t)

\* ------------------------------------------------ claims on transactions
CallsOn(hd, ops) == {i \in 1..Len(tlog[hd]) : tlog[hd][i].op \in ops}

\* C1: when a Transaction obtained from begin is dropped without commit() or
\* rollback(), the drop issues a native rollback on its handle, then a
\* release of that handle, and leaves the wrapper's handle null.
DropRollsBack ==
    lastOp.op = "drop" =>
        LET L == tlog[lastOp.h]
            n == Len(L)
        IN  /\ lastOp.h # NULL
            /\ n >= 2
            /\ L[n - 1].op = "rollback" /\ L[n - 1].by = lastOp.t
            /\ L[n].op = "release" /\ L[n].by = lastOp.t
            /\ trans[lastOp.t] = [st |-> "gone", h |-> NULL]

\* C1 witness: an active transaction was dropped and the engine rolled it back.
DropRolledBackActive ==
    /\ lastOp.op = "drop"
    /\ nst[lastOp.h] = "RolledBack"
    /\ Len(tlog[lastOp.h]) = 2

\* C2: on every native transaction handle at most one commit-or-rollback
\* call and at most one release call are ever issued, nothing is issued
\* after the release, and once commit(), rollback() or drop has run on the
\* owning Transaction exactly one of each has been issued.
HandleFinalizedOnce ==
    \A hd \in Handles :
        /\ Cardinality(CallsOn(hd, {"commit", "rollback"})) <= 1
        /\ Cardinality(CallsOn(hd, {"release"})) <= 1
        /\ \A i \in CallsOn(hd, {"release"}) : i = Len(tlog[hd])
        /\ (lastOp.op \in {"commit", "rollback", "drop"} /\ lastOp.h = hd) =>
              /\ Cardinality(CallsOn(hd, {"commit", "rollback"})) = 1
              /\ Cardinality(CallsOn(hd, {"release"})) = 1

\* C3: whenever a transaction's handle has been released, the transaction is
\* in a terminal state, Committed or RolledBack; it is never released while
\* still Active, also when commit() returned an error.
ReleasedIsTerminal ==
    lastOp.op \in {"commit", "rollback", "drop"} =>
        /\ Released(tlog[lastOp.h])
        /\ nst[lastOp.h] \in {"Committed", "RolledBack"}

\* ================================== sql/trans.rs: rows and their visibility ===
\* Transaction::execute_statement with an INSERT: the engine adds the row to
\* the transaction when the statement succeeds, which it can only while the
\* transaction is active and its handle not released.
InsertRow(t) ==
    /\ trans[t].st = "live"
    /\ \E rc \in StatusCodes :
          LET hd == trans[t].h IN
          /\ ins[hd] < MaxInserts
          /\ rc = SQL_OK => (nst[hd] = "Active" /\ ~Released(tlog[hd]))
          /\ ins' = IF rc = SQL_OK THEN [ins EXCEPT ![hd] = @ + 1] ELSE ins
    /\ UNCHANGED <<seen, nonIso>>

\* The rows inserted through hd that a transaction begun now observes: all
\* of them once the engine committed hd, none once it rolled hd back or while
\* hd is still active.  A transaction released while still active was never
\* undone by the engine: its rows are left in place.
ObservedRows(hd) ==
    IF nst[hd] = "Committed" THEN ins[hd]
    ELSE IF nst[hd] = "Active" /\ Released(tlog[hd]) THEN ins[hd]
    ELSE 0

\* A read-only transaction is begun, counts the rows it observes and is
\* dropped; seen remembers the call that ran last before it.
ReadOnlyObserve ==
    /\ seen' = [at |-> lastOp, rows |-> [hd \in Handles |-> ObservedRows(hd)]]
    /\ UNCHANGED <<ins, nonIso>>

\* Transaction::begin, for at most MaxWriters transactions.
BeginWriter == nBegin < MaxWriters /\ Begin

InitIso ==
    /\ ins = [hd \in Handles |-> 0]
    /\ seen = [at |-> [op |-> "none", t |-> 0, h |-> NULL, res |-> SQL_OK],
               rows |-> [hd \in Handles |-> 0]]

NextIso ==
    \/ BeginWriter
    \/ \E t \in TransIds : InsertRow(t)
    \/ \E t \in TransIds : Commit(t)
    \/ \E t \in TransIds : Rollback(t)
    \/ \E t \in TransIds : Drop(t)
    \/ ReadOnlyObserve

QueryReturnUnchecked(rc, ds) ==
    IF ds = NULL THEN [tag |-> "OkNone", code |-> SQL_OK, h |-> NULL]
    ELSE [tag |-> "OkSome", code |-> SQL_OK, h |-> ds]

\* Statement::execute_query, from the status code rc of the steps up to and
\* including mcosql_rs_query_execute and the out-parameter ds: Err(rc)
\* through ? before ds is read; Ok(None) for a null ds; else
\* Ok(Some(DataSource::new(ds))).
QueryReturn(rc, ds) ==
    IF rc # SQL_OK THEN [tag |-> "Err", code |-> rc, h |-> NULL]
    ELSE IF ds = NULL THEN [tag |-> "OkNone", code |-> SQL_OK, h |-> NULL]
    ELSE [tag |-> "OkSome", code |-> SQL_OK, h |-> ds]

\* mcosql_rs_query_execute as the wrapper sees it: with SQL_OK the engine
\* stores the handle of the result set (fresh), or null when the statement
\* produced none; on failure it leaves the out-parameter unwritten, which
\* then reads as null or as a handle an earlier call left there (stale).
QueryOutcomes(fresh, stale) ==
    {[rc |-> SQL_OK, produced |-> TRUE, ds |-> fresh],
     [rc |-> SQL_OK, produced |-> FALSE, ds |-> NULL]}
    \cup {[rc |-> RUNTIME_ERROR, produced |-> FALSE, ds |-> g] : g \in stale}

\* Engine::execute_query / Transaction::execute_query.
ExecuteQuery ==
    /\ Len(queries) < MaxQueries
    /\ \E rcAlloc \in StatusCodes, failAt \in 0..1,
          o \in QueryOutcomes(Len(queries) + 1, 0..Len(queries)) :
          /\ (rcAlloc # SQL_OK \/ failAt # 0) => (o.rc = SQL_OK /\ ~o.produced)
          /\ (rcAlloc # SQL_OK) => failAt = 0
          /\ queries' = Append(queries,
                 [executed |-> (rcAlloc = SQL_OK /\ failAt = 0),
                  rc |-> o.rc,
                  produced |-> o.produced,
                  ret |-> QueryReturn(ExecuteResult(rcAlloc, failAt, o.rc), o.ds),
                  released |-> 0])
    /\ UNCHANGED nonQry

\* impl Drop for DataSource: mcosql_release_query_result(self.h).
DataSourceDrop ==
    /\ \E i \in 1..Len(queries) :
          /\ queries[i].ret.tag = "OkSome"
          /\ queries[i].released = 0
          /\ queries' = [queries EXCEPT ![i].released = 1]
    /\ UNCHANGED nonQry

InitQry == queries = <<>>

NextQry ==
    \/ ExecuteQuery
    \/ DataSourceDrop

\* --------------------------------------------------- claims on queries
\* C12: execute_query returns Ok(None) only when the statement was executed
\* successfully and produced no result set, Ok(Some(DataSource)) with the
\* handle of the result set when one was produced, and Err with no
\* DataSource when the arena, a parameter conversion or the execution failed.
QueryResultMatches ==
    \A i \in 1..Len(queries) :
        LET q == queries[i]
            ok == q.executed /\ q.rc = SQL_OK
        IN  /\ q.ret.tag = "OkNone" <=> (ok /\ ~q.produced)
            /\ q.ret.tag = "OkSome" <=> (ok /\ q.produced)
            /\ q.ret.tag = "Err" <=> ~ok
            /\ q.ret.tag = "OkSome" => q.ret.h = i
            /\ q.ret.tag # "OkSome" => (q.ret.h = NULL /\ q.released = 0)
            /\ q.ret.tag = "Err" <=> q.ret.code # SQL_OK

\* C12 witness: a query produced a result set, whose DataSource was
\* dropped; a later execution failed with the stale handle in the
\* out-parameter and returned Err.
FailedQueryAfterResult ==
    /\ Len(queries) >= 2
    /\ queries[1].ret.tag = "OkSome" /\ queries[1].released = 1
    /\ queries[2].executed /\ queries[2].rc # SQL_OK
    /\ queries[2].ret.tag = "Err"

\* ================================== sql/value.rs: Value, checked casts ===
\* The column type tags the engine can report, and those enum Type knows.
Tags == 0..MaxTag
KnownTags == (0..CT_SEQUENCE) \ {CT_UNICODE, CT_REFERENCE, CT_STRUCT, CT_DATA_SOURCE, CT_LIST}

\* Type::from_mco: Some(type) for the tags of enum Type, None for the rest.
FromMco(v) == IF v \in KnownTags THEN [some |-> TRUE, ty |-> v] ELSE [some |-> FALSE, ty |-> 0]

\* Value::value_type: result_from_code(mcosql_rs_value_type(h, &ty)).and(
\* Type::from_mco(ty).ok_or(RUNTIME_ERROR)).
ValueType(rc, ty) ==
    IF rc # SQL_OK THEN [ok |-> FALSE, code |-> rc, ty |-> 0]
    ELSE IF ~FromMco(ty).some THEN [ok |-> FALSE, code |-> RUNTIME_ERROR, ty |-> 0]
    ELSE [ok |-> TRUE, code |-> SQL_OK, ty |-> FromMco(ty).ty]

\* A cast that reinterprets the value without looking at its type.
CastUnchecked(target, vt) ==
    IF ~vt.ok THEN [ok |-> FALSE, code |-> vt.code, view |-> "none"]
    ELSE [ok |-> TRUE, code |-> SQL_OK, view |-> target]

\* as_array / as_sequence / as_blob / TryFrom<Value> for Array:
\* value_type()? first, then the view when the type is the target's, else
\* Err(INVALID_TYPE_CAST).
CastTo(target, vt) ==
    IF ~vt.ok THEN [ok |-> FALSE, code |-> vt.code, view |-> "none"]
    ELSE IF vt.ty = target THEN [ok |-> TRUE, code |-> SQL_OK, view |-> target]
    ELSE [ok |-> FALSE, code |-> INVALID_TYPE_CAST, view |-> "none"]

\* One call of fn on a value whose type query returns rc and leaves ty in
\* the out-parameter (the value's tag when rc is SQL_OK).
CastCall(fn, target) ==
    /\ \E rc \in StatusCodes, ty \in Tags :
          cast' = [fn |-> fn, target |-> target, rc |-> rc, tag |-> ty,
                   res |-> CastTo(target, ValueType(rc, ty))]
    /\ UNCHANGED nonCast

AsArray == CastCall("as_array", CT_ARRAY)
AsSequence == CastCall("as_sequence", CT_SEQUENCE)
AsBlob == CastCall("as_blob", CT_BLOB)
ArrayTryFrom == CastCall("try_from", CT_ARRAY)

InitCast ==
    cast = [fn |-> "none", target |-> 0, rc |-> SQL_OK, tag |-> 0,
            res |-> [ok |-> FALSE, code |-> SQL_OK, view |-> "none"]]

NextCast ==
    \/ AsArray
    \/ AsSequence
    \/ AsBlob
    \/ ArrayTryFrom

\* ----------------------------------------------------- claims on casts
\* C13, as stated: a cast of a value whose type query succeeded yields the
\* view exactly when the value's tag is the target's, and fails with
\* INVALID_TYPE_CAST, yielding no view, for every other tag.
CastFailsWithInvalidTypeCast ==
    (cast.fn # "none" /\ cast.rc = SQL_OK) =>
        IF cast.tag = cast.target
        THEN cast.res.ok /\ cast.res.view = cast.target
        ELSE ~cast.res.ok /\ cast.res.code = INVALID_TYPE_CAST /\ cast.res.view = "none"

\* C13, amended: a cast yields the view exactly when the type query
\* succeeded with the target's tag; otherwise it yields no view and fails,
\* with INVALID_TYPE_CAST for another tag of enum Type, with RUNTIME_ERROR
\* for a tag enum Type does not have, and with the query's code when the
\* type query itself failed.
CastChecksTag ==
    cast.fn # "none" =>
        /\ cast.res.ok <=> (cast.rc = SQL_OK /\ cast.tag = cast.target)
        /\ cast.res.ok => cast.res.view = cast.target
        /\ ~cast.res.ok =>
              /\ cast.res.view = "none"
              /\ cast.res.code =
                    (IF cast.rc # SQL_OK THEN cast.rc
                     ELSE IF cast.tag \in KnownTags THEN INVALID_TYPE_CAST
                     ELSE RUNTIME_ERROR)

\* C13 witness: as_array on a value the engine tags as a struct, a tag enum
\* Type does not have, was refused with RUNTIME_ERROR.
StructCastRuntimeError ==
    /\ cast.fn = "as_array"
    /\ cast.rc = SQL_OK
    /\ cast.tag = CT_STRUCT
    /\ cast.res = [ok |-> FALSE, code |-> RUNTIME_ERROR, view |-> "none"]

\* ================================== lib.rs, sql.rs: result_from_code ===
Codes == 0..MaxCode

\* A conversion that files an SQL status code under the core taxonomy.
SqlResultFromCodeAsCore(return_code) ==
    IF return_code = MCO_S_OK THEN [tag |-> "Ok", kind |-> "none", code |-> 0]
    ELSE [tag |-> "Err", kind |-> "Core", code |-> return_code]

\* result_from_code of lib.rs: Ok(()) for MCO_S_OK, else
\* Err(Error::Core(CoreError::new(return_code))).
CoreResultFromCode(return_code) ==
    IF return_code = MCO_S_OK THEN [tag |-> "Ok", kind |-> "none", code |-> 0]
    ELSE [tag |-> "Err", kind |-> "Core", code |-> return_code]

\* result_from_code of sql.rs: Ok(()) for SQL_OK, else
\* Err(Error::Sql(SqlError::new(return_code))).
SqlResultFromCode(return_code) ==
    IF return_code = SQL_OK THEN [tag |-> "Ok", kind |-> "none", code |-> 0]
    ELSE [tag |-> "Err", kind |-> "Sql", code |-> return_code]

\* A core call returned rc and its wrapper converted it.
CoreCall ==
    /\ \E rc \in Codes : conv' = [api |-> "core", rc |-> rc, res |-> CoreResultFromCode(rc)]
    /\ UNCHANGED nonConv

\* An SQL call returned rc and its wrapper converted it.
SqlCall ==
    /\ \E rc \in Codes : conv' = [api |-> "sql", rc |-> rc, res |-> SqlResultFromCode(rc)]
    /\ UNCHANGED nonConv

InitConv == conv = [api |-> "none", rc |-> 0, res |-> [tag |-> "Ok", kind |-> "none", code |-> 0]]

NextConv ==
    \/ CoreCall
    \/ SqlCall

\* ------------------------------------------------- claims on status codes
\* C14: a status code of zero becomes Ok; any other code becomes an Err that
\* carries that very code, as Error::Core when a core call returned it and
\* as Error::Sql when an SQL call did.
CodeMapsToOneTaxonomy ==
    conv.api # "none" =>
        /\ conv.res.tag = "Ok" <=> conv.rc = 0
        /\ conv.res.tag = "Err" <=> conv.rc # 0
        /\ conv.rc # 0 =>
              /\ conv.res.code = conv.rc
              /\ conv.res.kind = (IF conv.api = "core" THEN "Core" ELSE "Sql")

\* C14 witness: an SQL call returned RUNTIME_ERROR and the wrapper returned
\* Err(Error::Sql) with that code.
SqlErrorCarriesCode ==
    /\ conv.api = "sql"
    /\ conv.rc = RUNTIME_ERROR
    /\ conv.res = [tag |-> "Err", kind |-> "Sql", code |-> RUNTIME_ERROR]

\* ================================================= the destructors ===
\* The native release calls each destructor makes, in order.
ReleaseCalls(ty) ==
    IF ty = "Connection" THEN <<"mco_db_disconnect">>
    ELSE IF ty = "Database" THEN <<"mco_db_close">>
    ELSE IF ty = "Runtime" THEN <<"mco_runtime_stop">>
    ELSE IF ty = "LocalEngine" THEN <<"mcoapi_destroy_engine">>
    ELSE IF ty = "LocalEngineSession" THEN <<"mcosql_rs_session_destroy">>
    ELSE IF ty = "Transaction" THEN <<"mcosql_rollback_transaction", "mcosql_release_transaction">>
    ELSE IF ty = "DataSource" THEN <<"mcosql_release_query_result">>
    ELSE IF ty = "Owned" THEN <<"mcosql_rs_allocator_destroy">>
    ELSE IF ty = "Server" THEN <<"sqlsrv_destroy">>
    ELSE <<"sqlcln_close", "sqlcln_destroy">>

DtorTypes ==
    {"Connection", "Database", "Runtime", "LocalEngine", "LocalEngineSession",
     "Transaction", "DataSource", "Owned", "Server", "RemoteEngine"}

\* An assertion that is compiled into every build.
AssertAlways(build, cond) == IF cond THEN "ok" ELSE "panic"

\* debug_assert!, debug_assert_eq!: checked only when the build has
\* debug assertions enabled.
DebugAssert(build, cond) == IF cond \/ build = "release" THEN "ok" ELSE "panic"

\* fn drop of ty, the native calls returning rcs: the calls made and how the
\* destructor ended.  Transaction's Drop asserts on the result of finalize,
\* after both calls; RemoteEngine's asserts after each of its two calls;
\* the others make one call and assert on its code.
DropOf(ty, build, rcs) ==
    LET c == ReleaseCalls(ty) IN
    IF ty = "Transaction"
    THEN [calls |-> c, end |-> DebugAssert(build, rcs[1] = 0 /\ rcs[2] = 0)]
    ELSE IF ty = "RemoteEngine"
    THEN IF DebugAssert(build, rcs[1] = 0) = "panic"
         THEN [calls |-> <<c[1]>>, end |-> "panic"]
         ELSE [calls |-> c, end |-> DebugAssert(build, rcs[2] = 0)]
    ELSE [calls |-> c, end |-> DebugAssert(build, rcs[1] = 0)]

\* A value of type ty is dropped in a build with or without debug
\* assertions; the native calls return any codes.
DestructorRun ==
    /\ \E ty \in DtorTypes, build \in {"debug", "release"},
          rcs \in [1..2 -> 0..MaxDtorCode] :
          /\ Len(ReleaseCalls(ty)) = 1 => rcs[2] = 0
          /\ dtor' = [ty |-> ty, build |-> build, rcs |-> rcs,
                      res |-> DropOf(ty, build, rcs)]
    /\ UNCHANGED nonDtor

InitDtor ==
    dtor = [ty |-> "none", build |-> "release", rcs |-> [i \in 1..2 |-> 0],
            res |-> [calls |-> <<>>, end |-> "ok"]]

NextDtor == DestructorRun

\* ------------------------------------------------ claims on destructors
\* C15: a destructor whose native release call returns an error code does
\* not panic in a build without debug assertions, where it makes all its
\* release calls and returns; it panics only in a build with debug
\* assertions, and only when a release call returned an error code.
DestructorsDoNotPanic ==
    dtor.ty # "none" =>
        /\ dtor.build = "release" =>
              (dtor.res.end = "ok" /\ dtor.res.calls = ReleaseCalls(dtor.ty))
        /\ dtor.res.end = "panic" =>
              (dtor.build = "debug" /\ \E i \in 1..2 : dtor.rcs[i] # 0)
        /\ (dtor.build = "debug" /\ \E i \in 1..2 : dtor.rcs[i] # 0) =>
              dtor.res.end = "panic"

\* C15 witness: in a build without debug assertions a RemoteEngine was
\* dropped, sqlcln_close failed, and the destructor went on to
\* sqlcln_destroy and returned.
FailedCloseStillDestroys ==
    /\ dtor.ty = "RemoteEngine"
    /\ dtor.build = "release"
    /\ dtor.rcs[1] # 0
    /\ dtor.res = [calls |-> <<"sqlcln_close", "sqlcln_destroy">>, end |-> "ok"]

\* =========================== runtime.rs .. trans.rs: lifetime nesting ===
\* Kinds of wrapper values, by depth: each borrows a value of the kind
\* before it for its whole life (Database<'a> the &'a Runtime, Connection<'a>
\* the &'a Database, LocalEngine<'a> the &'a Connection, Transaction<'a> the
\* &'a dyn Engine).
KindNames == <<"Runtime", "Database", "Connection", "LocalEngine", "Transaction">>
ObjIds == 1..MaxObjs
NoObj == [kind |-> 0, parent |-> 0, st |-> "none", nat |-> FALSE]

\* The values that borrow x, directly or through others, and are not dropped.
RECURSIVE Under(_, _)
Under(os, x) ==
    LET kids == {y \in ObjIds : os[y].st # "none" /\ os[y].parent = x}
    IN  kids \cup UNION {Under(os, y) : y \in kids}

OpenUnder(os, x) == {y \in Under(os, x) : os[y].st = "live" \/ os[y].nat}

\* A drop order nothing enforces.
MayDropAnyTime(os, x) == os[x].st = "live"

\* A value can be dropped (or moved out to be dropped) only when no live
\* value borrows it; the borrow checker rejects the program otherwise.
MayDrop(os, x) ==
    /\ os[x].st = "live"
    /\ \A y \in ObjIds : (os[y].st = "live" => os[y].parent # x)

FreeObj(x) == objs[x].st = "none" /\ \A y \in ObjIds : y < x => objs[y].st # "none"

\* Runtime::start, Database::open, Connection::new, LocalEngine::new,
\* Transaction::begin succeeding: a new value borrowing its parent.  A
\* second Runtime::start panics.
Create ==
    /\ \E x \in ObjIds, k \in 1..Len(KindNames), p \in ObjIds \cup {0} :
          /\ FreeObj(x)
          /\ IF k = 1
             THEN p = 0 /\ \A y \in ObjIds : objs[y].kind # 1
             ELSE p # 0 /\ objs[p].st = "live" /\ objs[p].kind = k - 1
          /\ objs' = [objs EXCEPT ![x] = [kind |-> k, parent |-> p, st |-> "live", nat |-> TRUE]]
    /\ UNCHANGED <<lastRel, nonNest>>

\* LocalEngine::new or Transaction::begin failing: the value built from the
\* unwritten out-parameter is dropped, which destroys the engine, or rolls
\* back and releases the transaction, whose handle the slot held (g), if any.
CreateFails ==
    /\ \E k \in {4, 5}, p \in ObjIds, g \in ObjIds :
          /\ objs[p].st = "live" /\ objs[p].kind = k - 1
          /\ objs[g].st # "none" /\ objs[g].kind = k
          /\ objs' = [objs EXCEPT ![g].nat = FALSE]
    /\ UNCHANGED <<lastRel, nonNest>>

\* impl Drop of the five wrappers: the native release of the handle
\* (mco_runtime_stop, mco_db_close, mco_db_disconnect,
\* mcoapi_destroy_engine, rollback and release of the transaction).
DropObj ==
    /\ \E x \in ObjIds :
          /\ MayDrop(objs, x)
          /\ objs' = [objs EXCEPT ![x].st = "dropped", ![x].nat = FALSE]
          /\ lastRel' = [id |-> x, kind |-> objs[x].kind,
                         open |-> {objs[y].kind : y \in OpenUnder(objs, x)}]
    /\ UNCHANGED nonNest

InitNest ==
    /\ objs = [x \in ObjIds |-> NoObj]
    /\ lastRel = [id |-> 0, kind |-> 0, open |-> {}]

NextNest ==
    \/ Create
    \/ CreateFails
    \/ DropObj

\* --------------------------------------------------- claims on nesting
\* C16: when the native handle of a wrapper is released, no handle created
\* under it is still open: no Connection when a Database is closed, no SQL
\* engine or Transaction when a Connection is disconnected, no Database
\* when the runtime is stopped.
ReleasedInNestingOrder == lastRel.open = {}

\* C16 witness: a full chain Runtime, Database, Connection, engine and
\* Transaction was built and torn down to the Runtime, which was stopped
\* last.
RuntimeStoppedLast ==
    /\ lastRel.kind = 1
    /\ \E x \in ObjIds : objs[x].kind = 5 /\ objs[x].st = "dropped"
    /\ \A x \in ObjIds : objs[x].st # "live"

\* ============================ sql/value.rs: integers to values and back ===
\* Integers are 64 bits wide at most; a bit pattern is kept as four 16-bit
\* limbs, least significant first.
LimbBase == 2 ^ 16
HalfLimb == 2 ^ 15
IntTypes == {"u8", "u16", "u32", "u64", "i8", "i16", "i32", "i64"}
IsSigned(T) == T \in {"i8", "i16", "i32", "i64"}
NLimbs(T) == IF T \in {"u8", "i8", "u16", "i16"} THEN 1
             ELSE IF T \in {"u32", "i32"} THEN 2 ELSE 4
IsByte(T) == T \in {"u8", "i8"}

\* Limb values around the boundaries of the types.
LimbSamples(T) ==
    IF IsByte(T) THEN {0, 1, 2 ^ 7 - 1, 2 ^ 7, 2 ^ 8 - 1}
    ELSE {0, 1, HalfLimb - 1, HalfLimb, LimbBase - 1}

Patterns(T) ==
    {b \in [1..4 -> LimbSamples(T)] : \A i \in 1..4 : i > NLimbs(T) => b[i] = 0}

\* The sign bit of a value of type T.
TopBitSet(T, b) ==
    IF IsByte(T) THEN b[1] >= 2 ^ 7 ELSE b[NLimbs(T)] >= HalfLimb

\* Two's complement negation over the first n limbs.
Negated(b, n) ==
    [i \in 1..4 |->
        IF i > n THEN 0
        ELSE IF \A j \in 1..(i - 1) : b[j] = 0
        THEN (LimbBase - b[i]) % LimbBase
        ELSE LimbBase - 1 - b[i]]

\* The number a bit pattern of type T stands for: sign and magnitude.
NumberOf(T, b) ==
    IF IsSigned(T) /\ TopBitSet(T, b)
    THEN [neg |-> TRUE,
          mag |-> IF IsByte(T) THEN [i \in 1..4 |-> IF i = 1 THEN 2 ^ 8 - b[1] ELSE 0]
                  ELSE Negated(b, NLimbs(T))]
    ELSE [neg |-> FALSE, mag |-> b]

\* `*self as i64`: sign extension for the signed types, zero extension for
\* the unsigned ones; a u64 keeps its 64 bits, which are then read as signed.
AsI64(T, b) ==
    IF IsSigned(T) /\ TopBitSet(T, b)
    THEN [i \in 1..4 |->
            IF i > NLimbs(T) THEN LimbBase - 1
            ELSE IF IsByte(T) THEN b[i] + (LimbBase - 2 ^ 8)
            ELSE b[i]]
    ELSE b

\* impl ToValue for the integer types, then Value::to_i64 on the value made:
\* Value::new_int(*self as i64) stores the i64, mcosql_rs_value_int hands it
\* back; either native call can fail.
IntRoundTrip ==
    /\ \E rcNew \in StatusCodes, rcInt \in StatusCodes :
          iret' = [ty |-> iarg.ty, v |-> iarg.bits,
                   ok |-> (rcNew = SQL_OK /\ rcInt = SQL_OK),
                   got |-> IF rcNew = SQL_OK /\ rcInt = SQL_OK
                           THEN AsI64(iarg.ty, iarg.bits)
                           ELSE [i \in 1..4 |-> 0]]
    /\ UNCHANGED <<iarg, nonInt>>

NoIntCall == [ty |-> "none", v |-> [i \in 1..4 |-> 0], ok |-> FALSE, got |-> [i \in 1..4 |-> 0]]

InitInt ==
    /\ iarg = [ty |-> "i64", bits |-> [i \in 1..4 |-> 0]]
    /\ iret = NoIntCall

InitInts ==
    /\ \E T \in IntTypes : \E b \in Patterns(T) : iarg = [ty |-> T, bits |-> b]
    /\ iret = NoIntCall

NextInt == IntRoundTrip

\* ------------------------------------------------ claims on integers
\* C17: for every integer type and every value v of it, to_value followed
\* by to_i64, when both succeed, yields the number v.
IntegerRoundTripExact ==
    (iret.ty # "none" /\ iret.ok) =>
        NumberOf("i64", iret.got) = NumberOf(iret.ty, iret.v)

\* ================================================ sql/value.rs: Numeric ===
\* 64-bit numbers are kept in decimal, NDigits digits, least significant
\* first; a signed number is a sign and a magnitude.
Digits == 1..NDigits

\* The digits f[1..n] as a tuple.
RECURSIVE Tup(_, _)
Tup(f, n) == IF n = 0 THEN <<>> ELSE Append(Tup(f, n - 1), f[n])

Zero == Tup([i \in Digits |-> 0], NDigits)
Pow10(k) == Tup([i \in Digits |-> IF i = k + 1 THEN 1 ELSE 0], NDigits)

\* A small natural number in digits.
FromNat(n) == Tup([i \in Digits |-> IF i <= 9 THEN (n \div (10 ^ (i - 1))) % 10 ELSE 0], NDigits)

\* A number written most significant digit first.
FromMsb(d) == Tup([i \in Digits |-> IF i <= Len(d) THEN d[Len(d) + 1 - i] ELSE 0], NDigits)

\* 2^63 and 2^64: i64::MAX + 1 and u64::MAX + 1.
Two63 == FromMsb(<<9, 2, 2, 3, 3, 7, 2, 0, 3, 6, 8, 5, 4, 7, 7, 5, 8, 0, 8>>)
Two64 == FromMsb(<<1, 8, 4, 4, 6, 7, 4, 4, 0, 7, 3, 7, 0, 9, 5, 5, 1, 6, 1, 6>>)

\* a < b on the digits up to position n.
LessUpTo(a, b, n) ==
    \E j \in 1..n : a[j] < b[j] /\ \A k \in (j + 1)..n : a[k] = b[k]

\* a - b for a >= b.
Sub(a, b) ==
    Tup([i \in Digits |-> (a[i] - b[i] - (IF LessUpTo(a, b, i - 1) THEN 1 ELSE 0) + 10) % 10],
        NDigits)

\* Magnitude of the quotient a / d, by decimal shift when d is a power of
\* ten, by repeated subtraction otherwise.
RECURSIVE Times(_, _)
Times(a, d) == IF LessUpTo(a, d, NDigits) THEN 0 ELSE 1 + Times(Sub(a, d), d)

DivMag(a, d) ==
    IF \E k \in 0..(NDigits - 1) : d = Pow10(k)
    THEN LET k == CHOOSE k \in 0..(NDigits - 1) : d = Pow10(k)
         IN  Tup([i \in Digits |-> IF i + k <= NDigits THEN a[i + k] ELSE 0], NDigits)
    ELSE FromNat(Times(a, d))

\* Integer division of signed numbers, truncating toward zero.
TruncDiv(a, d) ==
    LET q == DivMag(a.mag, d.mag)
    IN  [neg |-> (q # Zero /\ a.neg # d.neg), mag |-> q]

\* u rem 10^p for a power of ten.
RemPow10(a, p) == Tup([i \in Digits |-> IF i <= p THEN a[i] ELSE 0], NDigits)

\* `x as i64` of an unsigned 64-bit number: x itself below 2^63, else
\* x - 2^64.
AsSigned(u) ==
    IF LessUpTo(u, Two63, NDigits) THEN [neg |-> FALSE, mag |-> u]
    ELSE [neg |-> TRUE, mag |-> Sub(Two64, u)]

\* Numeric::new: Some for prec <= 19, None above.
NumericNew(val_scaled, prec) == prec <= MaxNumericPrec

\* Numeric::scale: 10usize.pow(prec).
NumericScale(prec) == Pow10(prec)

\* Numeric::int_part: val_scaled / self.scale() as i64.
IntPart(val_scaled, prec) == TruncDiv(val_scaled, AsSigned(NumericScale(prec)))

\* Numeric::fract_part: (val_scaled.abs() as u64).wrapping_rem(scale as
\* u64).  abs() of i64::MIN overflows: a panic in a build with overflow
\* checks, i64::MIN itself (2^63 as u64) without.
FractPart(val_scaled, prec, build) ==
    IF val_scaled.neg /\ val_scaled.mag = Two63 /\ build = "debug"
    THEN [panic |-> TRUE, v |-> Zero]
    ELSE [panic |-> FALSE, v |-> RemPow10(val_scaled.mag, prec)]

\* The scaled values tried: around zero, around the i64 limits, and around
\* 2^64 - 10^19.
SampleMags ==
    {Zero, Pow10(0), Pow10(4), Pow10(18), Sub(Pow10(18), Pow10(0)),
     Sub(Two64, Pow10(19)), Sub(Sub(Two64, Pow10(19)), Pow10(0)),
     Sub(Two63, Pow10(0)), Sub(Pow10(5), Pow10(0))}

SampleValues ==
    {[neg |-> FALSE, mag |-> m] : m \in SampleMags}
    \cup {[neg |-> TRUE, mag |-> m] : m \in (SampleMags \ {Zero}) \cup {Two63}}

\* Numeric::new(val_scaled, prec), then int_part() and fract_part() of the
\* Numeric when one was made.
NumericParts ==
    /\ \E build \in {"debug", "release"} :
          nret' = IF NumericNew(narg.val, narg.prec)
                  THEN [called |-> TRUE, val |-> narg.val, prec |-> narg.prec,
                        made |-> TRUE, build |-> build,
                        int_part |-> IntPart(narg.val, narg.prec),
                        fract_part |-> FractPart(narg.val, narg.prec, build)]
                  ELSE [called |-> TRUE, val |-> narg.val, prec |-> narg.prec,
                        made |-> FALSE, build |-> build,
                        int_part |-> [neg |-> FALSE, mag |-> Zero],
                        fract_part |-> [panic |-> FALSE, v |-> Zero]]
    /\ UNCHANGED <<narg, nonNum>>

NoNumeric ==
    [called |-> FALSE, val |-> [neg |-> FALSE, mag |-> Zero], prec |-> 0,
     made |-> FALSE, build |-> "release",
     int_part |-> [neg |-> FALSE, mag |-> Zero],
     fract_part |-> [panic |-> FALSE, v |-> Zero]]

InitNum ==
    /\ narg = [val |-> [neg |-> FALSE, mag |-> Zero], prec |-> 0]
    /\ nret = NoNumeric

InitNums ==
    /\ \E v \in SampleValues, p \in 0..MaxPrec : narg = [val |-> v, prec |-> p]
    /\ nret = NoNumeric

NextNum == NumericParts

\* ----------------------------------------------------- claims on Numeric
\* C18: for a Numeric of precision p in 0..19, int_part() is value_scaled
\* divided by 10^p, truncated toward zero, and fract_part() is
\* |value_scaled| modulo 10^p.
NumericPartsExact ==
    (nret.called /\ nret.made /\ nret.prec \in 0..19) =>
        /\ \A i \in Digits :
               nret.int_part.mag[i] =
                   IF i + nret.prec <= NDigits THEN nret.val.mag[i + nret.prec] ELSE 0
        /\ nret.int_part.neg = (nret.val.neg /\ nret.int_part.mag # Zero)
        /\ ~nret.fract_part.panic
        /\ \A i \in Digits :
               nret.fract_part.v[i] = IF i <= nret.prec THEN nret.val.mag[i] ELSE 0

\* C19: Numeric::new returns None when the precision is 19 or more.
NumericNewRejects19 ==
    (nret.called /\ nret.prec >= 19) => ~nret.made

\* ============================================ database.rs: Database::open ===
\* Names are strings of Unicode scalar values, here drawn from NUL, two
\* ASCII characters (the last one included) and three characters beyond
\* ASCII.
DbChars == {0, 97, 127, 128, 233, 8364}
DbNames == UNION {[1..n -> DbChars] : n \in 0..MaxDbNameLen}

\* str::is_ascii as a check that lets every name through.
IsAsciiAlways(name) == TRUE

\* str::is_ascii: every character is below 128.
IsAscii(name) == \A i \in 1..Len(name) : name[i] < 128

\* CString::new(name) fails on an interior NUL, and open unwraps it.
HasNul(name) == \E i \in 1..Len(name) : name[i] = 0

\* Database::open(runtime, name, dict, devs, params); rc is what
\* mco_db_open_dev returns when it is called.
DatabaseOpenNamed ==
    /\ ~db.live
    /\ db.calls < MaxOpens
    /\ \E rc \in {MCO_S_OK, MCO_E_NOMEM} :
          db' = IF ~IsAscii(dbarg)
                THEN [db EXCEPT !.calls = @ + 1, !.res = "Err", !.code = MCO_E_ILLEGAL_PARAM]
                ELSE IF HasNul(dbarg)
                THEN [db EXCEPT !.calls = @ + 1, !.res = "panic", !.code = MCO_S_OK]
                ELSE IF rc # MCO_S_OK
                THEN [db EXCEPT !.calls = @ + 1, !.opens = @ + 1, !.res = "Err", !.code = rc]
                ELSE [db EXCEPT !.calls = @ + 1, !.opens = @ + 1, !.res = "Ok",
                                !.code = MCO_S_OK, !.live = TRUE]
    /\ UNCHANGED <<dbarg, nonDb>>

\* Drop for Database: mco_db_close(name).
DatabaseDropNamed ==
    /\ db.live
    /\ db' = [db EXCEPT !.live = FALSE, !.closes = @ + 1]
    /\ UNCHANGED <<dbarg, nonDb>>

NoDb == [calls |-> 0, opens |-> 0, closes |-> 0, live |-> FALSE, res |-> "none", code |-> MCO_S_OK]

InitDb == dbarg = <<>> /\ db = NoDb

InitDbs == dbarg \in DbNames /\ db = NoDb

NextDb == DatabaseOpenNamed \/ DatabaseDropNamed

\* ----------------------------------------------- claims on Database::open
\* C20: Database::open of a name holding a non-ASCII character returns
\* MCO_E_ILLEGAL_PARAM, does not call the native open, and produces no
\* Database, so that no close is ever issued for it.
NonAsciiNameRejected ==
    (db.calls > 0 /\ \E i \in 1..Len(dbarg) : dbarg[i] >= 128) =>
        /\ db.res = "Err" /\ db.code = MCO_E_ILLEGAL_PARAM
        /\ db.opens = 0
        /\ ~db.live
        /\ db.closes = 0

\* A name whose only non-ASCII character is its last one was opened twice
\* and refused.
NonAsciiOpenRefused ==
    /\ db.calls = 2
    /\ dbarg = <<97, 127, 128>>
    /\ db.res = "Err"

\* ================================= device.rs: conventional device memory ===
\* Device::new_mem_conv(a, s): alloc::alloc(Layout(s, 1)), which hands out
\* memory without initializing it: the s bytes hold whatever the allocator
\* left there (0 or anything else, 255 standing for the latter).
NewMemConvAlloc ==
    /\ \E s \in 1..MaxBytes, ok \in BOOLEAN :
          IF ok
          THEN \E bytes \in [1..s -> {0, 255}] : mem' = [res |-> "Ok", bytes |-> bytes]
          ELSE mem' = [res |-> "Err", bytes |-> <<>>]
    /\ UNCHANGED nonMem

InitMem == mem = [res |-> "none", bytes |-> <<>>]

NextMem == NewMemConvAlloc

\* C21: every byte of the region of a device made by Device::new_mem_conv
\* reads as zero.
ConvMemoryZeroed ==
    mem.res = "Ok" => \A i \in 1..Len(mem.bytes) : mem.bytes[i] = 0

\* ======================================= sql/value.rs: SequenceIterator ===
\* The elements of the sequence are the value handles 1..seqLen.

\* A current_value that hands out whatever val_ref holds.
CurrentValueUnchecked(ref_) == [some |-> TRUE, v |-> ref_]

\* SequenceIterator::current_value: None when val_ref is null, else a
\* defused clone of val_ref.
CurrentValue(ref_) ==
    IF ref_ = NULL THEN [some |-> FALSE, v |-> NULL] ELSE [some |-> TRUE, v |-> ref_]

\* SequenceIterator::advance: replace_value(seq.next()?), then Ok(false)
\* when val_ref is null and Ok(true) otherwise.  mcosql_rs_seq_next returns
\* rc and, when it succeeds, the next element or null past the last one.
SeqIterAdvance ==
    /\ \E rc \in {SQL_OK, RUNTIME_ERROR} :
          IF rc # SQL_OK
          THEN iter' = [iter EXCEPT !.last = "err"]
          ELSE LET new_value == IF iter.pos < seqLen THEN iter.pos + 1 ELSE NULL
               IN  iter' = [pos |-> IF new_value = NULL THEN iter.pos ELSE new_value,
                            ref_ |-> new_value,
                            last |-> IF new_value = NULL THEN "false" ELSE "true"]
    /\ UNCHANGED <<seqLen, got, nonSeq>>

SeqIterCurrentValue ==
    /\ got' = [called |-> TRUE, last |-> iter.last, pos |-> iter.pos,
               ret |-> CurrentValue(iter.ref_)]
    /\ UNCHANGED <<seqLen, iter, nonSeq>>

NoGot == [called |-> FALSE, last |-> "new", pos |-> 0, ret |-> [some |-> FALSE, v |-> NULL]]

InitSeq ==
    /\ seqLen = 0
    /\ iter = [pos |-> 0, ref_ |-> NULL, last |-> "new"]
    /\ got = NoGot

InitSeqs ==
    /\ seqLen \in 0..MaxSeqLen
    /\ iter = [pos |-> 0, ref_ |-> NULL, last |-> "new"]
    /\ got = NoGot

NextSeq == SeqIterAdvance \/ SeqIterCurrentValue

\* C22: current_value returns None on an iterator never advanced or whose
\* last advance returned false, and the current element after an advance
\* that returned true.
CurrentValueFollowsAdvance ==
    got.called =>
        /\ got.last \in {"new", "false"} => ~got.ret.some
        /\ got.last = "true" => got.ret = [some |-> TRUE, v |-> got.pos]

\* current_value was called past the end of a sequence of two elements.
NoneAtEndOfSequence ==
    /\ got.called /\ got.last = "false" /\ got.pos = 2 /\ ~got.ret.some

\* ================================ extremedb_sys api_check/api.rs: Matcher ===
\* An Api maps, for each kind of item, identifiers to definitions; 0 stands
\* for an identifier the Api does not declare.  Two definitions of an item
\* are compatible here exactly when they are the same one.
ApiKinds == {"typedefs", "enums", "structs", "unions", "functions"}
ApiIdents == {"a", "b"}
ApiDefs == {1, 2}
EmptyApi == [k \in ApiKinds |-> [i \in ApiIdents |-> 0]]
Declared(api) == {<<k, i>> \in ApiKinds \X ApiIdents : api[k][i] # 0}

\* A lookup that never reports a missing item.
MatchItemsPresentOnly(k, inner, outer) ==
    IF \E i \in ApiIdents : inner[k][i] # 0 /\ outer[k][i] # 0 /\ inner[k][i] # outer[k][i]
    THEN "Err" ELSE "Ok"

\* match_enums, match_structs, match_unions, match_fns: every item of the
\* inner Api is looked up in the outer one (missing: error) and compared
\* with it (mismatch: error).
MatchItems(k, inner, outer) ==
    IF \E i \in ApiIdents : inner[k][i] # 0 /\ outer[k][i] = 0 THEN "Err"
    ELSE IF \E i \in ApiIdents : inner[k][i] # 0 /\ inner[k][i] # outer[k][i] THEN "Err"
    ELSE "Ok"

\* match_typedefs: a typedef the outer Api lacks is accepted; one it has
\* must match.
MatchTypedefs(inner, outer) ==
    IF \E i \in ApiIdents : inner.typedefs[i] # 0 /\ outer.typedefs[i] # 0
                            /\ inner.typedefs[i] # outer.typedefs[i]
    THEN "Err" ELSE "Ok"

\* Matcher::match_apis: typedefs, enums, structs, unions, functions, each
\* step returning early on an error.
MatchApis(inner, outer) ==
    IF MatchTypedefs(inner, outer) # "Ok" THEN "Err"
    ELSE IF \E k \in ApiKinds \ {"typedefs"} : MatchItems(k, inner, outer) # "Ok" THEN "Err"
    ELSE "Ok"

\* Builder: one more item is declared in one of the two Apis.
ApiAddItem ==
    /\ ~matched.called
    /\ Cardinality(Declared(apis.inner)) + Cardinality(Declared(apis.outer)) < MaxItems
    /\ \E side \in {"inner", "outer"}, k \in ApiKinds, i \in ApiIdents, d \in ApiDefs :
          /\ apis[side][k][i] = 0
          /\ apis' = [apis EXCEPT ![side][k][i] = d]
    /\ UNCHANGED <<matched, nonApi>>

\* match_apis(inner, outer) and match_apis(outer, inner).
ApiMatch ==
    /\ ~matched.called
    /\ matched' = [called |-> TRUE,
                   res |-> MatchApis(apis.inner, apis.outer),
                   swapped |-> MatchApis(apis.outer, apis.inner)]
    /\ UNCHANGED <<apis, nonApi>>

InitApi ==
    /\ apis = [inner |-> EmptyApi, outer |-> EmptyApi]
    /\ matched = [called |-> FALSE, res |-> "Ok", swapped |-> "Ok"]

NextApi == ApiAddItem \/ ApiMatch

IntNames == {"i8", "u8", "u32", "c_uint"}
SynTypes ==
    [kind : {"path"}, mutable : {FALSE}, target : IntNames]
    \cup [kind : {"ptr", "ref"}, mutable : BOOLEAN, target : IntNames]

\* build_int_info: size and unsigned variant ("" for an unsigned type).
IntSize(n) == IF n \in {"i8", "u8"} THEN 1 ELSE 4
IntUnsigned(n) == IF n = "i8" THEN "u8" ELSE ""

\* unsign_if_allowed: a signed integer type becomes its unsigned variant.
UnsignIfAllowed(m, t) ==
    IF m.ign_int_sign /\ t.kind = "path" /\ IntUnsigned(t.target) # ""
    THEN [t EXCEPT !.target = IntUnsigned(t.target)]
    ELSE t

\* A match_types that does not look at mutability.
MatchTypesAnyMutability(m, inner0, outer0) ==
    LET inner == UnsignIfAllowed(m, inner0)
        outer == UnsignIfAllowed(m, outer0)
    IN  \/ inner = outer
        \/ /\ inner.kind # "path" /\ outer.kind = inner.kind
           /\ m.ign_ptr_constness /\ inner.target = outer.target

\* TypeMatcher::match_types.
MatchTypes(m, inner0, outer0) ==
    LET inner == UnsignIfAllowed(m, inner0)
        outer == UnsignIfAllowed(m, outer0)
    IN  IF inner = outer THEN TRUE
        ELSE IF inner.kind = "path" /\ outer.kind = "path"
        THEN /\ m.allow_compat_ints
             /\ IntSize(inner.target) = IntSize(outer.target)
             /\ (IntUnsigned(inner.target) # "") = (IntUnsigned(outer.target) # "")
        ELSE IF inner.kind # "path" /\ outer.kind # "path"
        THEN IF /\ (inner.kind = "ptr") = (outer.kind = "ptr")
                /\ (inner.mutable = outer.mutable \/ ~inner.mutable)
             THEN m.ign_ptr_constness /\ inner.target = outer.target
             ELSE FALSE
        ELSE FALSE

TypeMatch ==
    /\ ~tm.called
    /\ tm' = [tm EXCEPT !.called = TRUE, !.res = MatchTypes(tm.m, tm.inner, tm.outer)]
    /\ UNCHANGED nonTm

NoType == [kind |-> "path", mutable |-> FALSE, target |-> "u8"]

InitTm ==
    tm = [m |-> [ign_int_sign |-> FALSE, ign_ptr_constness |-> FALSE, allow_compat_ints |-> FALSE],
          inner |-> NoType, outer |-> NoType, called |-> FALSE, res |-> FALSE]

InitTms ==
    \E m \in [ign_int_sign : BOOLEAN, ign_ptr_constness : BOOLEAN, allow_compat_ints : BOOLEAN],
       i \in SynTypes, o \in SynTypes :
        tm = [m |-> m, inner |-> i, outer |-> o, called |-> FALSE, res |-> FALSE]

NextTm == TypeMatch

\* C24: for two pointer types, match_types with constness ignored matches
\* those to the same target when the inner one is const and the outer one
\* mutable or when both have the same mutability, and never when the inner
\* one is mutable and the outer one const; with constness not ignored it
\* matches pointer types only when they are identical.
PointerConstnessAsymmetric ==
    (tm.called /\ tm.inner.kind = "ptr" /\ tm.outer.kind = "ptr") =>
        IF tm.m.ign_ptr_constness
        THEN /\ tm.inner.target = tm.outer.target =>
                   tm.res = (~tm.inner.mutable \/ tm.outer.mutable)
             /\ (tm.inner.mutable /\ ~tm.outer.mutable) => ~tm.res
        ELSE tm.res = (tm.inner = tm.outer)

\* *const i8 was matched against *mut i8 with constness ignored, and matched.
ConstInnerMatchesMutOuter ==
    /\ tm.called /\ tm.res /\ tm.m.ign_ptr_constness
    /\ tm.inner = [kind |-> "ptr", mutable |-> FALSE, target |-> "i8"]
    /\ tm.outer = [kind |-> "ptr", mutable |-> TRUE, target |-> "i8"]

\* ===================================== failed creation of a native handle ===
\* C25: a Transaction::begin whose native call failed issues no rollback and
\* no release: no native call is made in the name of the Transaction that
\* was never created.
FailedBeginIssuesNothing ==
    lastOp.op = "begin_failed" =>
        \A hd \in Handles : \A i \in 1..Len(tlog[hd]) : tlog[hd][i].by # lastOp.t

\* ============================================ runtime.rs: concurrent starts ===
StartsDone == \A c \in StartCalls : rtpc[c] \in {"running", "dropped", "panicked"}

\* C26 as stated: once concurrent Runtime::start calls have all returned or
\* panicked, exactly one of them has invoked mco_runtime_start and obtained a
\* Runtime, and every other one has panicked without invoking it.
ExactlyOneStartObtainsRuntime ==
    StartsDone =>
        \E c \in StartCalls :
            /\ rtpc[c] \in {"running", "dropped"}
            /\ \E k \in RtEvents("mco_runtime_start") : rtlog[k][2] = c
            /\ \A d \in StartCalls \ {c} :
                  /\ rtpc[d] = "panicked"
                  /\ \A k \in RtEvents("mco_runtime_start") : rtlog[k][2] # d

\* C26, amended: exactly one of the calls has invoked mco_runtime_start; it
\* has obtained a Runtime if the native start returned MCO_S_OK and has
\* panicked if not; every other call has panicked without invoking it.
ExactlyOneStartInvokesNative ==
    StartsDone =>
        \E c \in StartCalls :
            /\ \E k \in RtEvents("mco_runtime_start") :
                  /\ rtlog[k][2] = c
                  /\ (rtpc[c] \in {"running", "dropped"}) = (rtlog[k][3] = MCO_S_OK)
                  /\ (rtpc[c] = "panicked") = (rtlog[k][3] # MCO_S_OK)
            /\ \A d \in StartCalls \ {c} :
                  /\ rtpc[d] = "panicked"
                  /\ \A k \in RtEvents("mco_runtime_start") : rtlog[k][2] # d

\* Every call reached the flag before the native start was invoked, the
\* native start failed, and all calls have panicked.
ConcurrentStartsNativeFailed ==
    /\ \A c \in StartCalls : rtpc[c] = "panicked"
    /\ \E k \in RtEvents("mco_runtime_start") :
          /\ rtlog[k][3] # MCO_S_OK
          /\ Cardinality({i \in RtEvents("fetch_or") : i < k}) = MaxStartCalls

\* ========================================= sql/rsql/client.rs: RemoteEngine ===
DtorCodes == 0..MaxDtorCode

\* A connect that leaves the handle alone when the open fails.
DestroyAfterOpenNever(rc) == FALSE

\* RemoteEngine::connect: `if rc != SQL_OK { sqlcln_destroy(h) }`.
DestroyAfterOpen(rc) == rc # SQL_OK

\* RemoteEngine::connect(runtime, params): sqlcln_create, returning its
\* error at once; sqlcln_open, and on its failure sqlcln_destroy, whose code
\* is debug-asserted, before the open error is returned.
Connect ==
    /\ nConn < MaxConnects
    /\ cln.st # "engine"
    /\ nConn' = nConn + 1
    /\ \E build \in {"debug", "release"}, rc0 \in DtorCodes, rc \in DtorCodes, rc2 \in DtorCodes :
          cln' = IF rc0 # SQL_OK
                 THEN [st |-> "create_err", build |-> build, res |-> rc0,
                       calls |-> <<>>, rcs |-> <<>>]
                 ELSE IF ~DestroyAfterOpen(rc)
                 THEN [st |-> IF rc = SQL_OK THEN "engine" ELSE "open_err", build |-> build,
                       res |-> rc, calls |-> <<"sqlcln_open">>, rcs |-> <<rc>>]
                 ELSE [st |-> IF DebugAssert(build, rc2 = SQL_OK) = "panic"
                              THEN "connect_panic" ELSE "open_err",
                       build |-> build, res |-> rc,
                       calls |-> <<"sqlcln_open", "sqlcln_destroy">>, rcs |-> <<rc, rc2>>]
    /\ UNCHANGED nonCln

\* impl Drop for RemoteEngine: sqlcln_close and sqlcln_destroy, each code
\* debug-asserted right after its call (DropOf).
RemoteEngineDrop ==
    /\ cln.st = "engine"
    /\ \E rcs \in [1..2 -> DtorCodes] :
          LET d == DropOf("RemoteEngine", cln.build, rcs) IN
          cln' = [cln EXCEPT !.st = IF d.end = "panic" THEN "drop_panic" ELSE "dropped",
                             !.calls = @ \o d.calls,
                             !.rcs = @ \o SubSeq(rcs, 1, Len(d.calls))]
    /\ UNCHANGED <<nConn, nonCln>>

InitCln ==
    /\ cln = [st |-> "none", build |-> "release", res |-> SQL_OK, calls |-> <<>>, rcs |-> <<>>]
    /\ nConn = 0

NextCln == Connect \/ RemoteEngineDrop

\* C27 as stated: a created client handle is destroyed exactly once on
\* every path: when the open fails, before connect returns the open error,
\* no RemoteEngine being made; when it succeeds, after the close, when the
\* RemoteEngine is dropped.
HandleDestroyedOnEveryPath ==
    /\ cln.st \in {"open_err", "connect_panic"} =>
          /\ cln.st = "open_err" /\ cln.res = cln.rcs[1]
          /\ cln.calls = <<"sqlcln_open", "sqlcln_destroy">>
    /\ cln.st \in {"dropped", "drop_panic"} =>
          cln.calls = <<"sqlcln_open", "sqlcln_close", "sqlcln_destroy">>

\* C27, amended: the same, except that in a build with debug assertions a
\* failing sqlcln_destroy makes connect panic after the destroy instead of
\* returning the open error, and a failing sqlcln_close makes the drop panic
\* before the destroy, which is then never issued.
HandleDestroyedUnlessAsserted ==
    /\ cln.st = "open_err" =>
          /\ cln.res = cln.rcs[1] /\ cln.res # SQL_OK
          /\ cln.calls = <<"sqlcln_open", "sqlcln_destroy">>
    /\ cln.st = "connect_panic" =>
          /\ cln.build = "debug" /\ cln.rcs[2] # SQL_OK
          /\ cln.calls = <<"sqlcln_open", "sqlcln_destroy">>
    /\ cln.st = "dropped" =>
          cln.calls = <<"sqlcln_open", "sqlcln_close", "sqlcln_destroy">>
    /\ cln.st = "drop_panic" =>
          /\ cln.build = "debug"
          /\ \/ cln.calls = <<"sqlcln_open", "sqlcln_close">> /\ cln.rcs[2] # SQL_OK
             \/ /\ cln.calls = <<"sqlcln_open", "sqlcln_close", "sqlcln_destroy">>
                /\ cln.rcs[2] = SQL_OK /\ cln.rcs[3] # SQL_OK
    /\ cln.st = "engine" => cln.calls = <<"sqlcln_open">> /\ cln.rcs[1] = SQL_OK

\* A second connect failed to open in a build without debug assertions: its
\* handle was destroyed, the destroy failing too, and the open error returned.
OpenFailedHandleDestroyed ==
    /\ nConn = 2
    /\ cln.st = "open_err" /\ cln.build = "release"
    /\ cln.calls = <<"sqlcln_open", "sqlcln_destroy">>
    /\ cln.rcs[2] # SQL_OK

\* =========================================== sql/rsql/server.rs: Server ===
SrvCall(op, rc) ==
    /\ Len(srv.calls) < MaxSrvCalls
    /\ srv' = [srv EXCEPT !.calls = Append(@, [op |-> op, rc |-> rc])]
    /\ UNCHANGED nonSrv

\* Server::create: sqlsrv_create; a Server only when it returns SQL_OK.
ServerCreate ==
    /\ srv.calls = <<>>
    /\ \E rc \in StatusCodes :
          srv' = [calls |-> <<[op |-> "sqlsrv_create", rc |-> rc]>>, live |-> (rc = SQL_OK)]
    /\ UNCHANGED nonSrv

\* Server::start: sqlsrv_start(self.h), its code returned.
ServerStart == srv.live /\ \E rc \in StatusCodes : SrvCall("sqlsrv_start", rc)

\* Server::stop: sqlsrv_stop(self.h), its code returned.
ServerStop == srv.live /\ \E rc \in StatusCodes : SrvCall("sqlsrv_stop", rc)

\* impl Drop for Server: sqlsrv_destroy(self.h), nothing else.
ServerDrop ==
    /\ srv.live
    /\ \E rc \in StatusCodes :
          srv' = [calls |-> Append(srv.calls, [op |-> "sqlsrv_destroy", rc |-> rc]),
                  live |-> FALSE]
    /\ UNCHANGED nonSrv

InitSrv == srv = [calls |-> <<>>, live |-> FALSE]

NextSrv == ServerCreate \/ ServerStart \/ ServerStop \/ ServerDrop

\* C28: sqlsrv_destroy is never issued for a server whose most recent
\* successful start has not been followed by a stop.
StoppedBeforeDestroyed ==
    \A i \in 1..Len(srv.calls) :
        srv.calls[i].op = "sqlsrv_destroy" =>
            \A j \in 1..(i - 1) :
                (srv.calls[j].op = "sqlsrv_start" /\ srv.calls[j].rc = SQL_OK) =>
                    \E k \in (j + 1)..(i - 1) : srv.calls[k].op = "sqlsrv_stop"

\* ================================ database.rs: Params::backup_map_filename ===
\* Names: every string of 'a' and 'b' of up to MaxBackupNameLen characters,
\* and the two strings of 'a' around the size of the field.
BackupNames ==
    UNION {[1..n -> {97, 98}] : n \in 0..MaxBackupNameLen}
    \cup {[i \in 1..n |-> 97] : n \in {BackupMapFilenameLen - 1, BackupMapFilenameLen}}

\* ptr::copy_nonoverlapping(name, field, name.len()): the first name.len()
\* bytes of the field are overwritten, the others kept.
CopyOver(field, name) ==
    [i \in 1..Len(field) |-> IF i <= Len(name) THEN name[i] ELSE field[i]]

\* Params::get_backup_map_filename: the bytes of the field up to its first
\* NUL (CStr::from_ptr).
GetBackupMapFilename(field) ==
    LET nul == CHOOSE i \in 1..Len(field) :
                   field[i] = 0 /\ \A j \in 1..(i - 1) : field[j] # 0
    IN  SubSeq(field, 1, nul - 1)

\* Params::backup_map_filename(name): MCO_E_ILLEGAL_PARAM when the name is
\* as long as the field or longer; else the name is copied over the field.
BackupMapFilename ==
    /\ \E name \in BackupNames :
          bkp' = IF Len(name) >= Len(bkp.field)
                 THEN [bkp EXCEPT !.res = MCO_E_ILLEGAL_PARAM]
                 ELSE [field |-> CopyOver(bkp.field, name), last |-> name, res |-> MCO_S_OK]
    /\ UNCHANGED nonBkp

\* Params::new: mco_db_params_init leaves the field empty.
InitBkp ==
    bkp = [field |-> [i \in 1..BackupMapFilenameLen |-> 0], last |-> <<>>, res |-> MCO_S_OK]

NextBkp == BackupMapFilename

\* C29: get_backup_map_filename returns exactly the name passed to the most
\* recent successful backup_map_filename call.
BackupNameIsLastSet == GetBackupMapFilename(bkp.field) = bkp.last

\* C30: Database::open returns a Result, Ok or Err, for every name, an
\* ASCII name holding a NUL included; it never panics.
OpenNeverPanics == db.res # "panic"

\* ========================================================= specifications
InitAll == InitTx /\ InitCur /\ InitRef /\ InitRt /\ InitSt /\ InitDev /\ InitName /\ InitIso /\ InitQry /\ InitCast /\ InitConv /\ InitDtor /\ InitNest /\ InitInt /\ InitNum /\ InitDb /\ InitMem /\ InitSeq /\ InitApi /\ InitTm /\ InitCln /\ InitSrv /\ InitBkp

\* The same, the data source holding any number of rows.
InitAllRows == InitTx /\ InitCurRows /\ InitRef /\ InitRt /\ InitSt /\ InitDev /\ InitName /\ InitIso /\ InitQry /\ InitCast /\ InitConv /\ InitDtor /\ InitNest /\ InitInt /\ InitNum /\ InitDb /\ InitMem /\ InitSeq /\ InitApi /\ InitTm /\ InitCln /\ InitSrv /\ InitBkp

\* The same, the constructors being handed any name.
InitAllNames == InitTx /\ InitCur /\ InitRef /\ InitRt /\ InitSt /\ InitDev /\ InitNames /\ InitIso /\ InitQry /\ InitCast /\ InitConv /\ InitDtor /\ InitNest /\ InitInt /\ InitNum /\ InitDb /\ InitMem /\ InitSeq /\ InitApi /\ InitTm /\ InitCln /\ InitSrv /\ InitBkp

\* The same, to_value being handed any integer.
InitAllInts == InitTx /\ InitCur /\ InitRef /\ InitRt /\ InitSt /\ InitDev /\ InitName /\ InitIso /\ InitQry /\ InitCast /\ InitConv /\ InitDtor /\ InitNest /\ InitInts /\ InitNum /\ InitDb /\ InitMem /\ InitSeq /\ InitApi /\ InitTm /\ InitCln /\ InitSrv /\ InitBkp

\* The same, Numeric::new being handed any scaled value and precision.
InitAllNums == InitTx /\ InitCur /\ InitRef /\ InitRt /\ InitSt /\ InitDev /\ InitName /\ InitIso /\ InitQry /\ InitCast /\ InitConv /\ InitDtor /\ InitNest /\ InitInt /\ InitNums /\ InitDb /\ InitMem /\ InitSeq /\ InitApi /\ InitTm /\ InitCln /\ InitSrv /\ InitBkp

\* The same, Database::open being handed any name.
InitAllDbs == InitTx /\ InitCur /\ InitRef /\ InitRt /\ InitSt /\ InitDev /\ InitName /\ InitIso /\ InitQry /\ InitCast /\ InitConv /\ InitDtor /\ InitNest /\ InitInt /\ InitNum /\ InitDbs /\ InitMem /\ InitSeq /\ InitApi /\ InitTm /\ InitCln /\ InitSrv /\ InitBkp

\* The same, for a sequence of any length.
InitAllSeqs == InitTx /\ InitCur /\ InitRef /\ InitRt /\ InitSt /\ InitDev /\ InitName /\ InitIso /\ InitQry /\ InitCast /\ InitConv /\ InitDtor /\ InitNest /\ InitInt /\ InitNum /\ InitDb /\ InitMem /\ InitSeqs /\ InitApi /\ InitTm /\ InitCln /\ InitSrv /\ InitBkp

\* The same, for any TypeMatcher and any two types.
InitAllTms == InitTx /\ InitCur /\ InitRef /\ InitRt /\ InitSt /\ InitDev /\ InitName /\ InitIso /\ InitQry /\ InitCast /\ InitConv /\ InitDtor /\ InitNest /\ InitInt /\ InitNum /\ InitDb /\ InitMem /\ InitSeq /\ InitApi /\ InitTms /\ InitCln /\ InitSrv /\ InitBkp

SpecTx == InitAll /\ [][NextTx]_vars
SpecCur == InitAllRows /\ [][NextCur]_vars
SpecRef == InitAll /\ [][NextRef]_vars
SpecRt == InitAll /\ [][NextRt]_vars
SpecSt == InitAll /\ [][NextSt]_vars
SpecDev == InitAll /\ [][NextDev]_vars
SpecName == InitAllNames /\ [][NextName]_vars
SpecIso == InitAll /\ [][NextIso]_vars
SpecQry == InitAll /\ [][NextQry]_vars
SpecCast == InitAll /\ [][NextCast]_vars
SpecConv == InitAll /\ [][NextConv]_vars
SpecDtor == InitAll /\ [][NextDtor]_vars
SpecNest == InitAll /\ [][NextNest]_vars
SpecInt == InitAllInts /\ [][NextInt]_vars
SpecNum == InitAllNums /\ [][NextNum]_vars
SpecDb == InitAllDbs /\ [][NextDb]_vars
SpecMem == InitAll /\ [][NextMem]_vars
SpecSeq == InitAllSeqs /\ [][NextSeq]_vars
SpecApi == InitAll /\ [][NextApi]_vars
SpecTm == InitAllTms /\ [][NextTm]_vars
SpecCln == InitAll /\ [][NextCln]_vars
SpecSrv == InitAll /\ [][NextSrv]_vars
SpecBkp == InitAll /\ [][NextBkp]_vars
====
